---- MODULE Spec2Model ----
(***************************************************************************)
(* Voice2Code backend: the orchestrator process_audio (app.py) with its    *)
(* two agents optimize_prompt and get_raw_code, the dual-stage LLM module  *)
(* (dual_stage_llm.py: call_ollama_system, improve_transcript,             *)
(* validate_schema) and the fence stripper strip_fencing.                  *)
(*                                                                         *)
(* Text is a sequence of one-character strings.  Three specifications      *)
(* share the variables: SpecApp (one run of process_audio), Spec (calls    *)
(* into dual_stage_llm.py) and SpecFence (strip_fencing on bounded texts). *)
(***************************************************************************)
EXTENDS Integers, Sequences, FiniteSets, TLC

(***************************************************************************)
(* Characters and the str methods the code uses.                           *)
(***************************************************************************)
LowerLetters ==
  <<"a","b","c","d","e","f","g","h","i","j","k","l","m",
    "n","o","p","q","r","s","t","u","v","w","x","y","z">>

UpperLetters ==
  <<"A","B","C","D","E","F","G","H","I","J","K","L","M",
    "N","O","P","Q","R","S","T","U","V","W","X","Y","Z">>

\* str.upper on one character
UpperChar(c) ==
  IF \E i \in 1..Len(LowerLetters) : LowerLetters[i] = c
    THEN UpperLetters[CHOOSE i \in 1..Len(LowerLetters) : LowerLetters[i] = c]
    ELSE c

\* str.lower on one character
LowerChar(c) ==
  IF \E i \in 1..Len(UpperLetters) : UpperLetters[i] = c
    THEN LowerLetters[CHOOSE i \in 1..Len(UpperLetters) : UpperLetters[i] = c]
    ELSE c

\* str.upper
Upper(s) == [i \in 1..Len(s) |-> UpperChar(s[i])]

\* str.lower
Lower(s) == [i \in 1..Len(s) |-> LowerChar(s[i])]

\* the characters str.strip removes
IsSpace(c) == c \in {" ", "\n", "\r", "\t", "\f"}

\* str.strip
Strip(s) ==
  IF \A i \in 1..Len(s) : IsSpace(s[i])
    THEN <<>>
    ELSE LET a == CHOOSE i \in 1..Len(s) :
                    /\ ~IsSpace(s[i])
                    /\ \A j \in 1..(i-1) : IsSpace(s[j])
             b == CHOOSE i \in 1..Len(s) :
                    /\ ~IsSpace(s[i])
                    /\ \A j \in (i+1)..Len(s) : IsSpace(s[j])
         IN  SubSeq(s, a, b)

\* str.replace(c, "") for a single character c
RemoveChar(s, c) == SelectSeq(s, LAMBDA x : x # c)

\* str.startswith / str.endswith
StartsWith(s, p) == Len(s) >= Len(p) /\ SubSeq(s, 1, Len(p)) = p
EndsWith(s, p) == Len(s) >= Len(p) /\ SubSeq(s, Len(s) - Len(p) + 1, Len(s)) = p

\* sep.join(parts)
RECURSIVE Join(_, _)
Join(parts, sep) ==
  IF parts = <<>> THEN <<>>
  ELSE IF Len(parts) = 1 THEN parts[1]
  ELSE parts[1] \o sep \o Join(Tail(parts), sep)

\* all texts over alphabet A of length at most n
TextsUpTo(A, n) == UNION {[1..k -> A] : k \in 0..n}

\* p in s (substring test)
Contains(s, p) ==
  \E i \in 1..(Len(s) - Len(p) + 1) : SubSeq(s, i, i + Len(p) - 1) = p

\* s.find(c) for a single character: the first index, 0 when absent
FindChar(s, c) ==
  IF \E i \in 1..Len(s) : s[i] = c
    THEN CHOOSE i \in 1..Len(s) : s[i] = c /\ \A j \in 1..(i-1) : s[j] # c
    ELSE 0

(***************************************************************************)
(* dual_stage_llm.py: strip_fencing, with re and html.unescape as it uses  *)
(* them                                                                    *)
(***************************************************************************)
\* the backquote character U+0060 (a string literal cannot hold it)
BQ == "BACKQUOTE"

Backticks3 == <<BQ, BQ, BQ>>

Digits == {"0","1","2","3","4","5","6","7","8","9"}

\* \w of the re module, on the characters of the model
IsWordChar(c) ==
  \/ \E i \in 1..Len(LowerLetters) : LowerLetters[i] = c \/ UpperLetters[i] = c
  \/ c \in Digits
  \/ c = "_"

\* a tag class that forgets the + and the -
IsTagChar_WordOnly(c) == IsWordChar(c)

\* the class [\w+-] of fence_pattern: a character of the language tag
IsTagChar(c) == IsWordChar(c) \/ c = "+" \/ c = "-"

\* t.replace("\r\n", "\n")
RECURSIVE ReplaceCRLF(_)
ReplaceCRLF(t) ==
  IF \A i \in 1..Len(t) : t[i] # "\r" THEN t
  ELSE IF Len(t) >= 2 /\ t[1] = "\r" /\ t[2] = "\n"
    THEN <<"\n">> \o ReplaceCRLF(SubSeq(t, 3, Len(t)))
    ELSE <<t[1]>> \o ReplaceCRLF(Tail(t))

\* Backticks3 stands at index i of t
FenceAt(t, i) == i + 2 <= Len(t) /\ SubSeq(t, i, i + 2) = Backticks3

\* the index after the longest run of tag characters that starts at index i
RECURSIVE TagEnd(_, _)
TagEnd(t, i) ==
  IF i <= Len(t) /\ IsTagChar(t[i]) THEN TagEnd(t, i + 1) ELSE i

\* fence_pattern.findall(t) from index i on: at each index in turn, the
\* opening marker, the tag, a line feed, then lazily up to the next marker
RECURSIVE fence_findall(_, _)
fence_findall(t, i) ==
  IF \A j \in i..Len(t) : ~FenceAt(t, j) THEN <<>>
  ELSE
    LET nl == TagEnd(t, i + 3)
        opens == FenceAt(t, i) /\ nl <= Len(t) /\ t[nl] = "\n"
        closings == {j \in (nl + 1)..Len(t) : FenceAt(t, j)}
    IN  IF opens /\ closings # {}
          THEN LET close == CHOOSE j \in closings : \A k \in closings : j <= k
               IN  <<SubSeq(t, nl + 1, close - 1)>> \o fence_findall(t, close + 3)
          ELSE fence_findall(t, i + 1)

\* the html5 table of html.entities, cut to the names that can be written
\* with the letters that follow "&" in the model's texts (l and t)
Html5Names ==
  { <<"l","t">>, <<"l","t",";">>, <<"l","l",";">>, <<"T","a","b",";">> }

Html5(name) ==
  IF name = <<"l","l",";">> THEN <<"U+226A">>
  ELSE IF name = <<"T","a","b",";">> THEN <<"\t">>
  ELSE <<"<">>

\* the class [^\t\n\f <&#;] of html._charref
IsCharrefNameChar(c) == c \notin {"\t", "\n", "\f", " ", "<", "&", "#", ";"}

\* html._replace_charref for a named reference s (group 1 of the match)
replace_charref(s) ==
  IF s \in Html5Names THEN Html5(s)
  ELSE LET prefixes == {x \in 2..(Len(s) - 1) : SubSeq(s, 1, x) \in Html5Names}
       IN  IF prefixes # {}
             THEN LET x == CHOOSE y \in prefixes : \A z \in prefixes : z <= y
                  IN  Html5(SubSeq(s, 1, x)) \o SubSeq(s, x + 1, Len(s))
             ELSE <<"&">> \o s

\* the index after the run of at most 32 name characters that starts at i
RECURSIVE CharrefNameEnd(_, _, _)
CharrefNameEnd(s, i, n) ==
  IF n < 32 /\ i <= Len(s) /\ IsCharrefNameChar(s[i])
    THEN CharrefNameEnd(s, i + 1, n + 1)
    ELSE i

\* html.unescape(s) from index i on: _charref.sub(_replace_charref, s).  The
\* numeric alternatives of _charref start with "&#"; no text of the model
\* holds "#".
RECURSIVE html_unescape(_, _)
html_unescape(s, i) ==
  IF \A j \in i..Len(s) : s[j] # "&" THEN SubSeq(s, i, Len(s))
  ELSE IF s[i] # "&" THEN <<s[i]>> \o html_unescape(s, i + 1)
  ELSE
    LET e == CharrefNameEnd(s, i + 1, 0)
        semi == e <= Len(s) /\ s[e] = ";"
        last == IF semi THEN e ELSE e - 1
    IN  IF e = i + 1
          THEN <<"&">> \o html_unescape(s, i + 1)
          ELSE replace_charref(SubSeq(s, i + 1, last)) \o html_unescape(s, last + 1)

\* [m.strip() for m in matches if m and m.strip()]
StrippedNonEmpty(matches) ==
  LET stripped == [k \in 1..Len(matches) |-> Strip(matches[k])]
  IN  SelectSeq(stripped, LAMBDA m : m # <<>>)

\* strip_fencing joining the blocks with a single line feed
strip_fencing_JoinedByOneLineFeed(text) ==
  IF text = <<>> THEN <<>>
  ELSE
    LET t == ReplaceCRLF(Strip(text))
        matches == fence_findall(t, 1)
    IN  IF matches # <<>>
          THEN LET joined == Join(StrippedNonEmpty(matches), <<"\n">>)
               IN  html_unescape(Strip(joined), 1)
          ELSE Strip(html_unescape(RemoveChar(t, BQ), 1))

\* strip_fencing(text)
strip_fencing(text) ==
  IF text = <<>> THEN <<>>
  ELSE
    LET t == ReplaceCRLF(Strip(text))
        matches == fence_findall(t, 1)
    IN  IF matches # <<>>
          THEN LET joined == Join(StrippedNonEmpty(matches), <<"\n","\n">>)
               IN  html_unescape(Strip(joined), 1)
          ELSE Strip(html_unescape(RemoveChar(t, BQ), 1))

(***************************************************************************)
(* dual_stage_llm.py: fix_simple_python2_prints and the artifact           *)
(***************************************************************************)
\* the line boundaries of str.splitlines among the characters modelled
LineBreaks == {"\n", "\r", "\f"}

\* str.splitlines(): the lines without their boundaries, CR LF being one
\* boundary, and no empty last line after a final boundary
RECURSIVE SplitLines(_)
SplitLines(s) ==
  IF s = <<>> THEN <<>>
  ELSE
    LET breaks == {i \in 1..Len(s) : s[i] \in LineBreaks}
    IN  IF breaks = {} THEN <<s>>
        ELSE
          LET brk == CHOOSE i \in breaks : \A j \in breaks : i <= j
              next == IF s[brk] = "\r" /\ brk < Len(s) /\ s[brk + 1] = "\n"
                        THEN brk + 2 ELSE brk + 1
          IN  <<SubSeq(s, 1, brk - 1)>> \o SplitLines(SubSeq(s, next, Len(s)))

\* str.lstrip()
LStrip(s) ==
  IF \A i \in 1..Len(s) : IsSpace(s[i]) THEN <<>>
  ELSE LET a == CHOOSE i \in 1..Len(s) :
                  /\ ~IsSpace(s[i])
                  /\ \A j \in 1..(i - 1) : IsSpace(s[j])
       IN  SubSeq(s, a, Len(s))

PrintWord == <<"p", "r", "i", "n", "t">>

\* re.match(r"print\s+(.+)$", stripped) matches: "print", white space, and
\* one character more at least
MatchesPrint(stripped) ==
  /\ Len(stripped) >= 7
  /\ StartsWith(stripped, PrintWord)
  /\ IsSpace(stripped[6])

\* one line of fix_simple_python2_prints
FixPrintLine(line) ==
  LET stripped == LStrip(line)
      indent == SubSeq(line, 1, Len(line) - Len(stripped))
      inner == Strip(SubSeq(stripped, 6, Len(stripped)))
  IN  IF MatchesPrint(stripped) /\ ~StartsWith(inner, <<">", ">">>)
        THEN indent \o PrintWord \o <<"(">> \o inner \o <<")">>
        ELSE line

fix_simple_python2_prints(code) ==
  LET lines == SplitLines(code)
  IN  Join([i \in 1..Len(lines) |-> FixPrintLine(lines[i])], <<"\n">>)

\* the artifact without its line break
FinishArtifact_NoLineBreak(cleaned_output) == Strip(cleaned_output)

\* generate_code_from_task: cleaned_output.strip() + "\n"
FinishArtifact(cleaned_output) == Strip(cleaned_output) \o <<"\n">>

\* the refusal token <CANNOT_COMPLY>
Sentinel ==
  <<"<", "C", "A", "N", "N", "O", "T", "_", "C", "O", "M", "P", "L", "Y", ">">>

(***************************************************************************)
(* dual_stage_llm.py: JSON values, IMPROVER_SCHEMA and validate_schema     *)
(***************************************************************************)
\* what json.loads returns, by JSON type; an object holds its members, an
\* array its items
JStr == [t |-> "string"]
JNum == [t |-> "number"]
JArr(items) == [t |-> "array", items |-> items]
JObj(fields) == [t |-> "object", fields |-> fields]

\* json.loads raised: the text is no JSON document
NotJson == [t |-> "JSONDecodeError"]

\* IMPROVER_SCHEMA with maxItems one too large
IMPROVER_SCHEMA_MaxItemsEight ==
  [type |-> "object",
   required |-> {"summary", "requirements", "constraints"},
   properties |->
     [summary |-> [type |-> "string"],
      requirements |-> [type |-> "array", items |-> [type |-> "string"],
                        minItems |-> 1, maxItems |-> 8],
      constraints |-> [type |-> "array", items |-> [type |-> "string"]],
      example_io |-> [type |-> "object"]]]

IMPROVER_SCHEMA ==
  [type |-> "object",
   required |-> {"summary", "requirements", "constraints"},
   properties |->
     [summary |-> [type |-> "string"],
      requirements |-> [type |-> "array", items |-> [type |-> "string"],
                        minItems |-> 1, maxItems |-> 7],
      constraints |-> [type |-> "array", items |-> [type |-> "string"]],
      example_io |-> [type |-> "object"]]]

\* jsonschema.validate(instance, schema) raises nothing: the keywords the
\* schema uses, each applying only to instances of its own type
RECURSIVE SchemaAccepts(_, _)
SchemaAccepts(instance, schema) ==
  /\ "type" \in DOMAIN schema => instance.t = schema.type
  /\ ("required" \in DOMAIN schema /\ instance.t = "object")
       => schema.required \subseteq DOMAIN instance.fields
  /\ ("properties" \in DOMAIN schema /\ instance.t = "object")
       => \A k \in DOMAIN schema.properties \cap DOMAIN instance.fields :
            SchemaAccepts(instance.fields[k], schema.properties[k])
  /\ ("items" \in DOMAIN schema /\ instance.t = "array")
       => \A i \in 1..Len(instance.items) :
            SchemaAccepts(instance.items[i], schema.items)
  /\ ("minItems" \in DOMAIN schema /\ instance.t = "array")
       => Len(instance.items) >= schema.minItems
  /\ ("maxItems" \in DOMAIN schema /\ instance.t = "array")
       => Len(instance.items) <= schema.maxItems

\* validate_schema(obj, schema) returns None
validate_schema(obj, schema) == SchemaAccepts(obj, schema)

(***************************************************************************)
(* dual_stage_llm.py: call_ollama_system's reading of a 2xx response       *)
(***************************************************************************)
\* A Python str the backend sent: its characters, and what json.loads makes
\* of strip_fencing of it (a JSON value, or NotJson when json.loads raises).
Content(chars, json) == [chars |-> chars, json |-> json]

\* str.strip() of such a str
StripContent(c) == [c EXCEPT !.chars = Strip(c.chars)]

\* the values resp.json() is built of
PStr(c) == [py |-> "str", s |-> c]
PInt == [py |-> "int"]
PNone == [py |-> "NoneType"]
PDict(f) == [py |-> "dict", f |-> f]
PList(items) == [py |-> "list", items |-> items]

\* the body of a 2xx response: resp.json() raises ValueError, or returns data
TextBody(c) == [body |-> "text", text |-> c]
JsonBody(data) == [body |-> "json", data |-> data]

\* the JSON value json.loads(json.dumps(data)) is
RECURSIVE ToJson(_)
ToJson(v) ==
  CASE v.py = "str" -> JStr
    [] v.py = "int" -> JNum
    [] v.py = "NoneType" -> [t |-> "null"]
    [] v.py = "dict" -> JObj([k \in DOMAIN v.f |-> ToJson(v.f[k])])
    [] v.py = "list" -> JArr([i \in 1..Len(v.items) |-> ToJson(v.items[i])])

\* the characters of json.dumps(data), cut down to the outer brackets
DumpsChars(v) ==
  CASE v.py = "dict" -> <<"{", "}">>
    [] v.py = "list" -> <<"[", "]">>
    [] v.py = "str" -> <<"\"", "\"">>
    [] v.py = "int" -> <<"0">>
    [] v.py = "NoneType" -> <<"n", "u", "l", "l">>

json_dumps(v) == Content(DumpsChars(v), ToJson(v))

Return(value) == [kind |-> "return", value |-> value]
Raise(exc, cause) == [kind |-> "raise", exc |-> exc, cause |-> cause]

\* x.strip() of a value that may be no str
StripOf(v) ==
  IF v.py = "str" THEN Return(StripContent(v.s))
  ELSE Raise("AttributeError", v.py)

HasKey(d, k) == d.py = "dict" /\ k \in DOMAIN d.f

\* the chain of shapes after resp.json() returned data, in source order
ReadChoices(data) ==
  LET first == data.f["choices"].items[1]
  IN  IF first.py # "dict" THEN Return(json_dumps(data))
      ELSE IF HasKey(first, "message") /\ HasKey(first.f["message"], "content")
        THEN StripOf(first.f["message"].f["content"])
      ELSE IF HasKey(first, "text") /\ first.f["text"].py = "str"
        THEN Return(StripContent(first.f["text"].s))
      ELSE Return(json_dumps(data))

\* the chain with the "text" test before the "response" test
ReadData_TextFirst(data) ==
  IF data.py # "dict" THEN Return(json_dumps(data))
  ELSE IF HasKey(data, "text") /\ data.f["text"].py = "str"
    THEN Return(StripContent(data.f["text"].s))
  ELSE IF HasKey(data, "response") /\ data.f["response"].py = "str"
    THEN Return(StripContent(data.f["response"].s))
  ELSE IF HasKey(data, "message") /\ HasKey(data.f["message"], "content")
    THEN StripOf(data.f["message"].f["content"])
  ELSE IF /\ HasKey(data, "choices")
          /\ data.f["choices"].py = "list"
          /\ Len(data.f["choices"].items) > 0
    THEN ReadChoices(data)
  ELSE Return(json_dumps(data))

ReadData(data) ==
  IF data.py # "dict" THEN Return(json_dumps(data))
  ELSE IF HasKey(data, "response") /\ data.f["response"].py = "str"
    THEN Return(StripContent(data.f["response"].s))
  ELSE IF HasKey(data, "text") /\ data.f["text"].py = "str"
    THEN Return(StripContent(data.f["text"].s))
  ELSE IF HasKey(data, "message") /\ HasKey(data.f["message"], "content")
    THEN StripOf(data.f["message"].f["content"])
  ELSE IF /\ HasKey(data, "choices")
          /\ data.f["choices"].py = "list"
          /\ Len(data.f["choices"].items) > 0
    THEN ReadChoices(data)
  ELSE Return(json_dumps(data))

\* what call_ollama_system does with a 2xx response
ReadResponse(resp) ==
  IF resp.body = "text" THEN Return(StripContent(resp.text))
  ELSE ReadData(resp.data)

(***************************************************************************)
(* Bounds of the model.                                                    *)
(***************************************************************************)
\* longest transcript enumerated exhaustively over TranscriptAlphabet
MaxTranscriptLen == 3

\* most pieces of FencePieces a text given to strip_fencing is made of
MaxPieces == 4

\* largest LLM_RETRY_COUNT the configuration is given
MaxRetryCount == 2

\* longest "requirements" array a reply holds
MaxListLen == 8

\* latest second time.time() shows
MaxClock == 1

(***************************************************************************)
(* State.                                                                  *)
(***************************************************************************)
VARIABLES
  \* ---- one run of process_audio (app.py) ----
  pa_pc,             \* "idle", "optimize", "coder", "done"
  settings,          \* what the configuration files hold, read by each agent
  transcribed_text,  \* transcribe(audio_path)
  opt,               \* optimize_prompt's frame: attempt, retry_delay, posts, ...
  optimized_prompt,  \* process_audio's local after line 112
  cod,               \* get_raw_code's frame: called, attempt, retry_delay, posts, ...
  http_response,     \* what process_audio returns: [status, body]
  \* ---- the diagnostics directory logs/ ----
  logs,              \* debug_id -> record written
  logs_dir,          \* os.path.exists('logs')
  \* ---- one call into dual_stage_llm.py ----
  CONFIG,            \* the module's CONFIG: [LLM_RETRY_COUNT]
  entry,             \* the function called from outside
  llm_pc,            \* "idle", "post" (about to requests.post), "done"
  call,              \* call_ollama_system's frame, kept after it ends
  imp,               \* improve_transcript's frame
  gen,               \* generate_code_from_task's frame
  \* ---- runs served at the same time ----
  runs,              \* run -> its frame: what it was called with, its locals
  clock,             \* int(time.time())
  \* ---- strip_fencing applied to a text ----
  fence              \* the text and what strip_fencing made of it

appVars == <<pa_pc, settings, transcribed_text, opt, optimized_prompt, cod,
             http_response>>

llmVars == <<logs_dir, CONFIG, entry, llm_pc, call, imp, gen>>

runVars == <<runs, clock>>

vars == <<pa_pc, settings, transcribed_text, opt, optimized_prompt, cod,
          http_response, logs, fence, llmVars, runVars>>

\* a text local that has not been assigned (no text holds this element)
Unset == <<"<unset>">>

\* process_audio has not returned yet
NoResponse == [status |-> 0, body |-> [pending |-> TRUE]]

\* a function that has not returned or raised yet
NoResult == [kind |-> "running"]

\* a local name for a str that is not bound (no text holds this element):
\* reading it raises UnboundLocalError
Unbound == <<"<unbound>">>

\* task_json before improve_transcript binds it
NoTask == [t |-> "unbound"]

\* LLM_RETRY_COUNT as the module sets it
DefaultRetryCount == 2

\* call_ollama_system on entry: attempt is the loop variable of
\* range(1, retries + 2) and last_err the local of that name; posts and
\* fails count its exchanges, sleeps lists its waits, raised is what its
\* latest exchange raised and response what its latest exchange received
CallFrame0 ==
  [system_prompt |-> "none", attempt |-> 1, last_err |-> "None",
   posts |-> 0, fails |-> 0, raised |-> "None", sleeps |-> <<>>,
   response |-> [body |-> "none"], result |-> NoResult]

\* improve_transcript on entry: attempt is the loop variable of
\* range(CONFIG['LLM_RETRY_COUNT']); raw_output holds the characters of the
\* str of that name and task_json the value it returns; calls and posts
\* count its calls and their exchanges, outcome tells how its latest
\* iteration ended and writes counts the files it opened
S1Frame0 ==
  [transcript_text |-> <<>>, system_prompt |-> "IMPROVER_SYSTEM_PROMPT",
   attempt |-> 0, raw_output |-> Unbound, task_json |-> NoTask,
   calls |-> 0, posts |-> 0, outcome |-> "none", writes |-> 0,
   result |-> NoResult]

\* generate_code_from_task on entry: user_input is json.dumps(task_json);
\* calls and posts count its calls and their exchanges, outcome tells how
\* its try ended and writes counts the files it opened
S2Frame0 ==
  [task_json |-> PDict(<<>>), user_input |-> json_dumps(PDict(<<>>)),
   calls |-> 0, posts |-> 0, outcome |-> "none", writes |-> 0,
   result |-> NoResult]

\* no runs side by side
NoRuns == <<>>

\* nothing of dual_stage_llm.py runs
LlmIdle ==
  /\ runs = NoRuns
  /\ clock = 0
  /\ logs_dir = FALSE
  /\ CONFIG = [LLM_RETRY_COUNT |-> DefaultRetryCount]
  /\ entry = "none"
  /\ llm_pc = "idle"
  /\ call = CallFrame0
  /\ imp = S1Frame0
  /\ gen = S2Frame0

(***************************************************************************)
(* whisper_wrapper.transcribe                                              *)
(***************************************************************************)
\* the six blank-audio markers of process_audio, as written in the source
BlankMarkers ==
  { <<"[","B","L","A","N","K","_","A","U","D","I","O","]">>,
    <<"(","B","L","A","N","K","_","A","U","D","I","O",")">>,
    <<"[","S","I","L","E","N","C","E","]">>,
    <<"(","S","I","L","E","N","C","E",")">>,
    <<"[","B","L","A","N","K","]">>,
    <<"(","B","L","A","N","K",")">> }

\* upper case, with the second letter lowered
MixedCase(s) ==
  [i \in 1..Len(s) |-> IF i = 3 THEN LowerChar(s[i]) ELSE s[i]]

TranscriptAlphabet == {" ", ".", "?", "a", "b"}

\* texts a whisper segment may hold
SegmentTexts ==
  TextsUpTo(TranscriptAlphabet, MaxTranscriptLen)
    \cup {f[m] : m \in BlankMarkers,
                 f \in {[x \in BlankMarkers |-> x],
                        [x \in BlankMarkers |-> Lower(x)],
                        [x \in BlankMarkers |-> MixedCase(x)],
                        [x \in BlankMarkers |-> <<" ">> \o Lower(x) \o <<"\n">>],
                        [x \in BlankMarkers |-> x \o <<"!">>],
                        [x \in BlankMarkers |-> Tail(x)]}}
    \cup { <<"a","d","d"," ","a"," ","b">>, <<"!",",","!","?">>, <<",","a",",">> }

\* what whisper-cli leaves behind: a failure, or the JSON it wrote
WhisperOutcomes ==
  {[ok |-> FALSE, transcription |-> <<>>, text |-> <<>>]}
    \cup {[ok |-> TRUE, transcription |-> <<s>>, text |-> <<>>] : s \in SegmentTexts}
    \cup {[ok |-> TRUE, transcription |-> <<s1, s2>>, text |-> <<>>] :
            s1 \in {<<"a">>, <<" ">>, <<"[","B","L","A","N","K">>},
            s2 \in {<<"b">>, <<>>, <<"]">>}}
    \cup {[ok |-> TRUE, transcription |-> <<>>, text |-> s] :
            s \in {<<>>, <<" ","a","b","a"," ">>, <<" ","(","b","l","a","n","k",")">>}}

\* transcribe(audio_file): "" on any failure, else the joined segments (or the
\* "text" field when they are empty), stripped
transcribe(w) ==
  IF ~w.ok THEN <<>>
  ELSE LET joined == Join(w.transcription, <<" ">>)
           t == IF joined = <<>> THEN Strip(w.text) ELSE joined
       IN  Strip(t)


(***************************************************************************)
(* app.py: process_audio and its helpers                                   *)
(***************************************************************************)
\* strip_markdown_code_blocks(code)
strip_markdown_code_blocks(code) ==
  LET c0 == Strip(code)
      first_newline == FindChar(c0, "\n")
      c1 == IF StartsWith(c0, Backticks3) /\ first_newline # 0
              THEN SubSeq(c0, first_newline + 1, Len(c0))
              ELSE c0
      c2 == IF EndsWith(c1, Backticks3) THEN SubSeq(c1, 1, Len(c1) - 3) ELSE c1
  IN  Strip(c2)

\* what settings.json can be for load_coder_config
CoderConfigs == {"missing", "undecodable", "no_prompt", "plain", "mentions_error"}

\* load_coder_config()[0]; the literal prompts are cut to their first words
load_coder_config(cfg) ==
  CASE cfg = "missing"        -> <<"Y","o","u"," ","a","r","e">>
    [] cfg = "undecodable"    -> <<"E","r","r","o","r",":">>
    [] cfg = "no_prompt"      -> <<>>
    [] cfg = "plain"          -> <<"C","o","d","e",":">>
    [] cfg = "mentions_error" -> <<"N","o"," ","E","r","r","o","r","s">>

ErrorWord == <<"E","r","r","o","r">>

NoAudioResponse ==
  [status |-> 400,
   body |-> [error |-> "No audio was recorded. Please try speaking again.",
             error_type |-> "no_audio"]]

\* the blank-transcript tests with the marker test made case-sensitive
IsBlankTranscription_CaseSensitive(text) ==
  LET cleaned_text == Strip(text)
  IN  \/ text = <<>> \/ Strip(text) = <<>>
      \/ cleaned_text \in BlankMarkers
      \/ Len(cleaned_text) < 3
      \/ Strip(RemoveChar(RemoveChar(RemoveChar(RemoveChar(
             cleaned_text, "."), ","), "!"), "?")) = <<>>

\* lines 75, 84 and 92 of process_audio: the three blank-transcript tests
IsBlankTranscription(text) ==
  LET cleaned_text == Strip(text)
  IN  \/ text = <<>> \/ Strip(text) = <<>>
      \/ Upper(cleaned_text) \in BlankMarkers
      \/ Len(cleaned_text) < 3
      \/ Strip(RemoveChar(RemoveChar(RemoveChar(RemoveChar(
             cleaned_text, "."), ","), "!"), "?")) = <<>>

\* a loop whose variable does not advance
NextPass_Same(attempt) == attempt

\* "for attempt in range(max_retries)": the loop variable of the next pass
NextPass(attempt) == attempt + 1

\* an optimizer that gives up one attempt early
OptMaxRetries_OneLess == 3 - 1

\* max_retries of optimize_prompt and of get_raw_code
OptMaxRetries == 3
CoderMaxRetries == 3

OptFrame0 ==
  [attempt |-> 0, retry_delay |-> 1, posts |-> 0, sleeps |-> <<>>,
   exhausted |-> FALSE, ret |-> Unset]

CodFrame0 ==
  [called |-> FALSE, prompt |-> Unset, attempt |-> 0, retry_delay |-> 1,
   posts |-> 0, sleeps |-> <<>>, ret |-> Unset]

\* what one requests.post of an agent can end in
AgentOutcomes(texts) ==
  {[kind |-> k, response |-> <<>>] :
      k \in {"RequestException", "JSONDecodeError", "Exception"}}
    \cup {[kind |-> "ok", response |-> t] : t \in texts}

\* "response" fields the optimizer model may send
OptTexts == { <<>>, <<" ">>, <<" ","s","u","m"," ">>, <<"a","d","d">> }

\* "response" fields the coder model may send
CoderTexts ==
  { <<>>, <<"\n">>, <<"x","=","1">>,
    <<BQ,BQ,BQ,"p","y","\n","x","=","1","\n",BQ,BQ,BQ>>,
    <<BQ,BQ,BQ,"x",BQ,BQ,BQ>>,
    <<" ",BQ,BQ,BQ,"\n","x","\n">> }

\* process_audio from the return of get_raw_code (lines 136-166)
FinishWithCode(raw_code) ==
  IF raw_code = <<>>
    THEN [status |-> 500, body |-> [error |-> "Failed to get code from the AI model"]]
    ELSE [status |-> 200,
          body |-> [code |-> strip_markdown_code_blocks(raw_code),
                    timings |-> "timings"]]

\* process_audio from the return of optimize_prompt to the first post of
\* get_raw_code (lines 107-135, and lines 43-49 of get_raw_code)
AfterOptimizer(ret) ==
  LET prompt == IF ret = <<>> THEN transcribed_text ELSE ret
      coder_prompt_template == load_coder_config(settings.coder)
      full_prompt == coder_prompt_template \o <<"\n","\n">> \o prompt
  IN  /\ optimized_prompt' = prompt
      /\ IF Contains(coder_prompt_template, ErrorWord)
           THEN /\ http_response' = [status |-> 500,
                                     body |-> [error |-> coder_prompt_template]]
                /\ pa_pc' = "done"
                /\ cod' = cod
           ELSE IF ~settings.ollama_endpoint \/ ~settings.ollama_model
             THEN /\ cod' = [cod EXCEPT !.called = TRUE, !.prompt = full_prompt,
                                        !.ret = <<>>]
                  /\ http_response' = FinishWithCode(<<>>)
                  /\ pa_pc' = "done"
             ELSE /\ cod' = [cod EXCEPT !.called = TRUE, !.prompt = full_prompt]
                  /\ http_response' = http_response
                  /\ pa_pc' = "coder"

\* process_audio up to the call of optimize_prompt (lines 53-106), and
\* optimize_prompt up to its retry loop (lines 48-71)
ReceiveRequest ==
  /\ pa_pc = "idle"
  /\ \E audio_path \in BOOLEAN, w \in WhisperOutcomes :
       LET text == transcribe(w) IN
       IF ~audio_path
         THEN /\ http_response' =
                   [status |-> 400, body |-> [error |-> "Audio path not provided"]]
              /\ pa_pc' = "done"
              /\ UNCHANGED <<transcribed_text, opt, optimized_prompt, cod>>
         ELSE /\ transcribed_text' = text
              /\ IF IsBlankTranscription(text)
                   THEN /\ http_response' = NoAudioResponse
                        /\ pa_pc' = "done"
                        /\ UNCHANGED <<opt, optimized_prompt, cod>>
                   ELSE /\ pa_pc' = "optimize"
                        /\ UNCHANGED <<opt, optimized_prompt, cod, http_response>>
  /\ UNCHANGED <<settings, logs, fence, llmVars, runVars>>

\* optimize_prompt without an endpoint: returns the transcript, no request
OptimizerNoEndpoint ==
  /\ pa_pc = "optimize"
  /\ ~settings.ollama_endpoint
  /\ opt' = [opt EXCEPT !.ret = transcribed_text]
  /\ AfterOptimizer(transcribed_text)
  /\ UNCHANGED <<settings, transcribed_text, logs, fence, llmVars, runVars>>

\* one pass of optimize_prompt's retry loop (lines 73-116): one requests.post
OptimizerPost ==
  /\ pa_pc = "optimize"
  /\ settings.ollama_endpoint
  /\ opt.attempt < OptMaxRetries
  /\ \E o \in AgentOutcomes(OptTexts) :
       LET posted == [opt EXCEPT !.posts = @ + 1] IN
       IF o.kind = "RequestException"
         THEN IF opt.attempt < OptMaxRetries - 1
                THEN /\ opt' = [posted EXCEPT !.attempt = NextPass(@),
                                             !.sleeps = Append(@, opt.retry_delay),
                                             !.retry_delay = @ * 2]
                     /\ UNCHANGED <<pa_pc, optimized_prompt, cod, http_response>>
                ELSE /\ opt' = [posted EXCEPT !.exhausted = TRUE,
                                             !.ret = transcribed_text]
                     /\ AfterOptimizer(transcribed_text)
         ELSE LET ret == IF o.kind = "ok" /\ o.response # <<>>
                           THEN Strip(o.response)
                           ELSE transcribed_text
              IN  /\ opt' = [posted EXCEPT !.ret = ret]
                  /\ AfterOptimizer(ret)
  /\ UNCHANGED <<settings, transcribed_text, logs, fence, llmVars, runVars>>

\* one pass of get_raw_code's retry loop (lines 58-103): one requests.post,
\* and process_audio from its return
CoderPost ==
  /\ pa_pc = "coder"
  /\ cod.attempt < CoderMaxRetries
  /\ \E o \in AgentOutcomes(CoderTexts) :
       LET posted == [cod EXCEPT !.posts = @ + 1] IN
       IF o.kind = "RequestException" /\ cod.attempt < CoderMaxRetries - 1
         THEN /\ cod' = [posted EXCEPT !.attempt = NextPass(@),
                                      !.sleeps = Append(@, cod.retry_delay),
                                      !.retry_delay = @ * 2]
              /\ UNCHANGED <<pa_pc, http_response>>
         ELSE LET ret == IF o.kind = "ok" /\ o.response # <<>>
                           THEN Strip(o.response)
                           ELSE <<>>
              IN  /\ cod' = [posted EXCEPT !.ret = ret]
                  /\ http_response' = FinishWithCode(ret)
                  /\ pa_pc' = "done"
  /\ UNCHANGED <<settings, transcribed_text, opt, optimized_prompt, logs, fence, llmVars, runVars>>

SettingsSpace ==
  [ollama_endpoint : BOOLEAN, ollama_model : BOOLEAN, coder : CoderConfigs]

\* no run of process_audio has started
AppIdle ==
  /\ pa_pc = "idle"
  /\ transcribed_text = Unset
  /\ opt = OptFrame0
  /\ optimized_prompt = Unset
  /\ cod = CodFrame0
  /\ http_response = NoResponse

\* strip_fencing has been given nothing
FenceFrame0 ==
  [text |-> <<>>, stripped |-> Unset, restripped |-> Unset,
   tag |-> Unset, unwrapped |-> Unset]

InitApp ==
  /\ AppIdle
  /\ LlmIdle
  /\ settings \in SettingsSpace
  /\ logs = <<>>
  /\ fence = FenceFrame0

NextApp ==
  \/ ReceiveRequest
  \/ OptimizerNoEndpoint
  \/ OptimizerPost
  \/ CoderPost

SpecApp == InitApp /\ [][NextApp]_vars

\* process_audio where every requests.post returns or times out (both
\* agents post with timeout=30), so a run that stands before a post takes
\* that step
SpecAppLive ==
  /\ SpecApp
  /\ WF_vars(OptimizerNoEndpoint)
  /\ WF_vars(OptimizerPost)
  /\ WF_vars(CoderPost)

(***************************************************************************)
(* Claims about process_audio (SpecApp)                                    *)
(***************************************************************************)
\* the transcripts C1 speaks of, stated from the claim: empty or
\* whitespace-only, a marker in any letter case after trimming, shorter than
\* 3 characters after trimming, or made only of . , ! ? and whitespace
C1_LoweredMarkers == {Lower(m) : m \in BlankMarkers}

C1_NoUsableAudio(t) ==
  LET trimmed == Strip(t)
  IN  \/ \A i \in 1..Len(t) : IsSpace(t[i])
      \/ Lower(trimmed) \in C1_LoweredMarkers
      \/ Len(trimmed) < 3
      \/ \A i \in 1..Len(t) : t[i] \in {".", ",", "!", "?"} \/ IsSpace(t[i])

\* C1: whenever the transcript is empty, whitespace-only, a blank-audio
\* marker in any letter case, shorter than 3 characters or only punctuation,
\* process_audio has returned error_type "no_audio" (status 400), neither
\* agent was called or sent any request, and no diagnostic record exists.
C1_BlankTranscriptStopsBeforeAnyCall ==
  (transcribed_text # Unset /\ C1_NoUsableAudio(transcribed_text)) =>
     /\ pa_pc = "done"
     /\ http_response = NoAudioResponse
     /\ http_response.body.error_type = "no_audio"
     /\ opt.posts = 0 /\ opt.ret = Unset
     /\ cod.posts = 0 /\ ~cod.called
     /\ logs = <<>>

\* a lower-case marker was transcribed and answered with no_audio
C1_Witness ==
  /\ pa_pc = "done"
  /\ transcribed_text = <<"[","b","l","a","n","k","_","a","u","d","i","o","]">>
  /\ http_response = NoAudioResponse
  /\ opt.posts = 0 /\ cod.posts = 0

\* C2 as stated: once Stage 1 (optimize_prompt) has failed on all its
\* attempts, Stage 2 (get_raw_code) is never invoked in that run.
C2_Stage1FailureStopsRun ==
  opt.exhausted => (~cod.called /\ cod.posts = 0)

\* C2 amended: when optimize_prompt has failed on all 3 attempts it has
\* returned the original transcript as its fallback, and unless the coder
\* template holds the word "Error" the run has gone on to call get_raw_code
\* with a prompt ending in that transcript; get_raw_code is called only
\* after optimize_prompt has returned.
C2_Stage1FailureFallsBackToTranscript ==
  /\ opt.exhausted =>
       /\ opt.posts = 3
       /\ opt.ret = transcribed_text
       /\ optimized_prompt = transcribed_text
       /\ ~Contains(load_coder_config(settings.coder), ErrorWord) =>
            (cod.called /\ EndsWith(cod.prompt, transcribed_text))
  /\ cod.called => opt.ret # Unset
  /\ (opt.posts >= 3 /\ opt.ret = Unset) => FALSE

\* the optimizer failed three times and the coder was still sent a request
C2_Witness ==
  /\ opt.exhausted
  /\ cod.called
  /\ cod.posts >= 1
  /\ pa_pc = "done"
  /\ http_response.status = 200

(***************************************************************************)
(* The texts strip_fencing is applied to (SpecFence)                       *)
(***************************************************************************)
\* what the texts are made of: markers, stray backquotes, line ends, blanks,
\* a tag or code letter, an entity
FencePieces ==
  { Backticks3, <<BQ>>, <<"\n">>, <<"\r","\n">>, <<" ">>, <<"l">>,
    <<"&","l","t",";">> }

RECURSIVE Flatten(_)
Flatten(ps) == IF ps = <<>> THEN <<>> ELSE ps[1] \o Flatten(Tail(ps))

\* every concatenation of at most n pieces
PieceTexts(n) == {Flatten(ps) : ps \in UNION {[1..k -> FencePieces] : k \in 0..n}}

\* "```" tag "\n" C "```": C in a single fence
Wrap(tag, C) == Backticks3 \o tag \o <<"\n">> \o C \o Backticks3

\* language tags of an opening marker: none, a word, and one fence_pattern
\* does not take for a tag
FenceTags == { <<>>, <<"l">>, <<"t","+","+">>, <<"t","#">> }

BlockContents ==
  { <<>>, <<"l">>, <<" ","l","\n">>, <<"&","l","t",";">>, <<BQ,"l",BQ>>,
    <<"l","\n","\n","t">> }

OutsideTexts == { <<>>, <<"t">>, <<"\n">> }

\* texts with two fenced blocks and text before, between and after them
TwoBlockTexts ==
  { pre \o Wrap(g1, c1) \o mid \o Wrap(g2, c2) \o post :
      pre \in OutsideTexts, mid \in OutsideTexts, post \in OutsideTexts,
      g1 \in {<<>>, <<"l">>}, g2 \in {<<>>}, c1 \in BlockContents,
      c2 \in BlockContents }

FenceTexts == PieceTexts(MaxPieces) \cup TwoBlockTexts

\* strip_fencing(text)
StripText ==
  /\ fence.stripped = Unset /\ fence.unwrapped = Unset
  /\ fence' = [fence EXCEPT !.stripped = strip_fencing(fence.text)]
  /\ UNCHANGED <<appVars, logs, llmVars, runVars>>

\* strip_fencing applied to its own result
StripAgain ==
  /\ fence.stripped # Unset /\ fence.restripped = Unset
  /\ fence' = [fence EXCEPT !.restripped = strip_fencing(fence.stripped)]
  /\ UNCHANGED <<appVars, logs, llmVars, runVars>>

\* strip_fencing applied to the text wrapped in a single fence
WrapAndStrip ==
  /\ fence.stripped = Unset /\ fence.unwrapped = Unset
  /\ \E tag \in FenceTags :
       fence' = [fence EXCEPT !.tag = tag,
                              !.unwrapped = strip_fencing(Wrap(tag, fence.text))]
  /\ UNCHANGED <<appVars, logs, llmVars, runVars>>

InitFence ==
  /\ AppIdle
  /\ LlmIdle
  /\ settings = [ollama_endpoint |-> TRUE, ollama_model |-> TRUE, coder |-> "plain"]
  /\ logs = <<>>
  /\ \E t \in FenceTexts : fence = [FenceFrame0 EXCEPT !.text = t]

NextFence ==
  \/ StripText
  \/ StripAgain
  \/ WrapAndStrip

SpecFence == InitFence /\ [][NextFence]_vars

(***************************************************************************)
(* Claims about strip_fencing (SpecFence)                                  *)
(***************************************************************************)
\* C8 as stated: strip_fencing is idempotent: applied to its own result it
\* returns that result.
C8_StripFencingIdempotent ==
  fence.restripped # Unset => fence.restripped = fence.stripped

\* the fenced blocks fence_pattern finds in a text
C10_Blocks(text) == fence_findall(ReplaceCRLF(Strip(text)), 1)

\* C9 as stated: for any code text C and any language tag, strip_fencing of
\* C wrapped in a single fence is C up to surrounding whitespace.
C9_RoundTripAnyText ==
  fence.unwrapped # Unset => fence.unwrapped = Strip(fence.text)

\* the texts C9 as amended speaks of: the closing marker is the first triple
\* backquote of C followed by it, C holds no CR LF pair and no character
\* reference html.unescape replaces
C9_PlainCode(C) ==
  /\ \A i \in 1..Len(C) : ~FenceAt(C \o Backticks3, i)
  /\ ~Contains(C, <<"\r","\n">>)
  /\ html_unescape(C, 1) = C

\* the tags C9 as amended speaks of: word characters, + and - only
C9_PlainTag(tag) == \A i \in 1..Len(tag) : IsWordChar(tag[i]) \/ tag[i] \in {"+", "-"}

\* C9 amended: for a code text C that holds no triple backquote before the
\* closing marker, no CR LF pair and no HTML character reference, and a tag
\* of word characters, + and -, strip_fencing of C wrapped in a single
\* fence is C without its surrounding whitespace.
C9_RoundTripPlainCode ==
  (fence.unwrapped # Unset /\ C9_PlainCode(fence.text) /\ C9_PlainTag(fence.tag))
    => fence.unwrapped = Strip(fence.text)

\* a padded code text under the tag t++ came back trimmed
C9_Witness ==
  /\ fence.unwrapped # Unset
  /\ fence.tag = <<"t","+","+">>
  /\ fence.text = <<" ","l",BQ,"\n">>
  /\ fence.unwrapped = <<"l",BQ>>

Absent == [t |-> "absent"]

TaskKeys == {"summary", "requirements", "constraints", "example_io"}

Strings(n) == [i \in 1..n |-> JStr]

SummaryValues == {Absent, JStr, JNum}
RequirementsValues ==
  {Absent, JStr, JArr(<<JNum>>), JArr(<<JStr, JNum>>)}
    \cup {JArr(Strings(n)) : n \in {0, 1, 2, MaxListLen - 1, MaxListLen}}
ConstraintsValues == {Absent, JArr(<<>>), JArr(<<JStr>>), JArr(<<JNum>>), JObj(<<>>)}
ExampleIoValues == {Absent, JObj(<<>>), JStr}

\* the JSON object holding the members of m that are not Absent
ObjectOf(m) == JObj([k \in {j \in TaskKeys : m[j] # Absent} |-> m[k]])

\* the members of a task description that validates
GoodMembers ==
  [summary |-> JStr, requirements |-> JArr(<<JStr, JStr>>),
   constraints |-> JArr(<<JStr>>), example_io |-> Absent]

\* a task description that validates and has a member "error" besides
TaskWithErrorKey ==
  JObj([summary |-> JStr, requirements |-> JArr(<<JStr>>),
        constraints |-> JArr(<<>>), error |-> JStr])

\* the JSON values a reply parses to: objects that differ from a good one
\* in one member, or in requirements and one more, and values of other types
ReplyDocs ==
  {ObjectOf([GoodMembers EXCEPT !.requirements = v]) : v \in RequirementsValues}
    \cup {ObjectOf([GoodMembers EXCEPT !.summary = v]) : v \in SummaryValues}
    \cup {ObjectOf([GoodMembers EXCEPT !.constraints = v]) : v \in ConstraintsValues}
    \cup {ObjectOf([GoodMembers EXCEPT !.example_io = v]) : v \in ExampleIoValues}
    \cup {ObjectOf([GoodMembers EXCEPT !.requirements = JArr(Strings(MaxListLen)),
                                       !.summary = JNum])}
    \cup {JObj(<<>>), JStr, JNum, JArr(<<JStr>>), TaskWithErrorKey}

\* raw_output[:100] keeps this many characters
RawKeep == 100

XText(n) == [i \in 1..n |-> "x"]

\* a task description that validates, as JSON and as resp.json() data
OneTask ==
  JObj([summary |-> JStr, requirements |-> JArr(<<JStr>>),
        constraints |-> JArr(<<>>)])
OneTaskData ==
  PDict([summary |-> PStr(Content(<<"s">>, NotJson)),
         requirements |-> PList(<<PStr(Content(<<"r">>, NotJson))>>),
         constraints |-> PList(<<>>)])

\* replies that are JSON text, bare
DocContents == {Content(<<"{", "}">>, d) : d \in ReplyDocs}

\* replies of other kinds: nothing, prose, prose of RawKeep characters and
\* of one more, a lone backquote, fenced JSON (with a language tag, with
\* spaces around), and JSON longer than RawKeep that does not validate
OtherContents ==
  { Content(<<>>, NotJson),
    Content(<<" ", "h", "i", "\n">>, NotJson),
    Content(XText(RawKeep), NotJson),
    Content(XText(RawKeep + 1), NotJson),
    Content(<<BQ>>, NotJson),
    Content(Backticks3 \o <<"j", "\n", "{", "}">> \o Backticks3, OneTask),
    Content(<<" ">> \o Backticks3 \o <<"\n", "{", "}", "\n">> \o Backticks3, OneTask),
    Content(<<"{">> \o XText(RawKeep) \o <<"}">>, JObj(<<>>)) }

\* a str is followed to its end by json.loads only if strip_fencing leaves
\* something of it
WellFormed(c) == (c.json # NotJson) => strip_fencing(c.chars) # <<>>

FewContents ==
  { Content(<<"{", "}">>, OneTask),
    Content(<<" ", "h", "i", "\n">>, NotJson),
    Content(<<"{", "}">>, JObj(<<>>)) }

Message(v) == PDict([message |-> PDict([content |-> v])])

\* bodies of 2xx responses: each shape call_ollama_system knows, shapes it
\* does not know, two known keys at once, and members that are no str
Responses ==
  {JsonBody(PDict([response |-> PStr(c)])) : c \in DocContents \cup OtherContents}
    \cup {TextBody(c) : c \in FewContents}
    \cup {JsonBody(PDict([text |-> PStr(c)])) : c \in FewContents}
    \cup {JsonBody(Message(PStr(c))) : c \in FewContents}
    \cup {JsonBody(PDict([choices |-> PList(<<Message(PStr(c))>>)])) : c \in FewContents}
    \cup {JsonBody(PDict([choices |-> PList(<<PDict([text |-> PStr(c)])>>)])) :
            c \in FewContents}
    \cup {JsonBody(PDict([response |-> PStr(c),
                          text |-> PStr(Content(<<"t">>, NotJson))])) :
            c \in FewContents}
    \cup {JsonBody(PDict([response |-> PInt, text |-> PStr(c)])) : c \in FewContents}
    \cup {JsonBody(d) : d \in
            { Message(PInt), Message(PNone), Message(PList(<<>>)),
              PDict([message |-> PDict(<<>>)]),
              PDict([message |-> PStr(Content(<<"h">>, NotJson))]),
              PDict([choices |-> PList(<<>>)]),
              PDict([choices |-> PList(<<PInt>>)]),
              PDict([choices |-> PList(<<Message(PInt)>>)]),
              PDict([choices |-> PList(<<PDict([text |-> PInt])>>)]),
              PDict(<<>>), PList(<<>>), PInt, OneTaskData }}

\* what the coder may answer: the refusal token bare, with white space
\* around, fenced, written with an entity, inside other text and inside a
\* line of code; code with a Python 2 print, with blank lines around and
\* between, with a form feed around; nothing; white space; fence markers
\* and nothing between them
CodeReplies ==
  { Sentinel,
    <<" ">> \o Sentinel \o <<"\n">>,
    Backticks3 \o <<"\n">> \o Sentinel \o <<"\n">> \o Backticks3,
    <<"&", "l", "t", ";">> \o Tail(Sentinel),
    Sentinel \o <<" ", "n", "o">>,
    <<"x", "\n">> \o Sentinel,
    <<"x", " ", "=", " ", "1">>,
    <<"p", "r", "i", "n", "t", " ", "x">>,
    <<"\n", "\n", "x", "\n", "\n">>,
    <<"a", "\n", "\n", "b">>,
    Backticks3 \o <<"\n", "&", "T", "a", "b", ";", "x", "\f">> \o Backticks3,
    <<"x", "\r">>,
    <<>>,
    <<" ", "\n">>,
    Backticks3 \o <<"\n">> \o Backticks3 }

\* bodies of 2xx responses to the coder's request
CoderResponses ==
  {JsonBody(PDict([response |-> PStr(Content(c, NotJson))])) : c \in CodeReplies}
    \cup {JsonBody(Message(PStr(Content(Sentinel, NotJson)))),
          JsonBody(Message(PInt)),
          TextBody(Content(<<"x">>, NotJson)),
          JsonBody(PDict(<<>>))}

\* the task descriptions generate_code_from_task is given
Tasks == {OneTaskData, PDict(<<>>)}

\* what requests.post and raise_for_status raise
RequestExceptions == {"HTTPError", "Timeout"}

\* the transcripts improve_transcript is given
Transcripts == {<<"a", "b">>}

\* hash(transcript_text): some integer, equal for some unequal texts
Hash(t) == Len(t)

(***************************************************************************)
(* dual_stage_llm.py: call_ollama_system and improve_transcript            *)
(***************************************************************************)
\* "if attempt <= retries" read as attempt < retries
MaySleepAndRetry_OneLess(attempt, retries) == attempt < retries

\* call_ollama_system, after a failed attempt: "if attempt <= retries"
MaySleepAndRetry(attempt, retries) == attempt <= retries

\* the wait taken as 2 ** attempt
BackoffWait_FromTwo(attempt) == 2 ^ attempt

\* time.sleep(2 ** (attempt - 1))
BackoffWait(attempt) == 2 ^ (attempt - 1)

\* the last value of range(1, retries + 2)
LastTransportAttempt(retries) == retries + 1

\* "last_err = e" keeping the first error instead
AssignLastErr_KeepFirst(old, e) == IF old = "None" THEN e ELSE old

\* "last_err = e"
AssignLastErr(old, e) == e

\* range(n) running one time more
SemanticRange_OneMore(n) == 0..n

\* range(CONFIG['LLM_RETRY_COUNT'])
SemanticRange(n) == 0..(n - 1)

\* the handler's test read as attempt < CONFIG['LLM_RETRY_COUNT']
HasAttemptsLeft_OneMore(attempt, retry_count) == attempt < retry_count

\* improve_transcript's handler: "if attempt < CONFIG['LLM_RETRY_COUNT'] - 1"
HasAttemptsLeft(attempt, retry_count) == attempt < retry_count - 1

\* the handler leaving system_prompt as it was
CorrectivePrompt_Keep(old) == old

\* the handler's system_prompt = "Output EXACTLY one JSON object and
\* nothing else."
CorrectivePrompt(old) == "EXACTLY one JSON object"

\* s[:n]
Prefix(s, n) == SubSeq(s, 1, IF Len(s) < n THEN Len(s) ELSE n)

\* the name of a failure record: f"llm_fail_{int(time.time())}_{hash(...)}.log"
DebugId(now, transcript_text) == [time |-> now, hash |-> Hash(transcript_text)]

\* the empty debug_id of the return after the loop
NoDebugId == [time |-> "", hash |-> ""]

\* open(path, "w") and the writes that follow: the file holds this and
\* nothing older
WriteLog(id, record) ==
  [d \in DOMAIN logs \cup {id} |-> IF d = id THEN record ELSE logs[d]]

\* how the file system takes the handler's calls
FsOutcomes == {"ok", "makedirs raises OSError", "open raises OSError"}

ImproverFailure(raw, debug_id) ==
  [error |-> "improver_parse_failed", raw |-> raw, debug_id |-> debug_id]

\* improve_transcript's except branch on its last attempt: the record, then
\* the error dictionary; f is the frame, e the exception caught
RecordAndReturn(f, e) ==
  /\ llm_pc' = "done"
  /\ \E fs \in FsOutcomes :
       IF ~logs_dir /\ fs = "makedirs raises OSError"
         THEN /\ imp' = [f EXCEPT !.result = Raise("OSError", "makedirs")]
              /\ UNCHANGED <<logs, logs_dir>>
       ELSE IF fs = "open raises OSError"
         THEN /\ imp' = [f EXCEPT !.result = Raise("OSError", "open")]
              /\ logs_dir' = TRUE
              /\ UNCHANGED logs
       ELSE
         \E now \in 0..MaxClock :
           LET debug_id == DebugId(now, f.transcript_text)
           IN  /\ logs_dir' = TRUE
               /\ IF f.raw_output = Unbound
                    THEN /\ imp' = [f EXCEPT !.writes = @ + 1,
                                             !.result = Raise("UnboundLocalError",
                                                              "raw_output")]
                         /\ logs' = WriteLog(debug_id,
                                             [transcript |-> f.transcript_text,
                                              raw_output |-> Unbound,
                                              exception |-> "not written"])
                    ELSE /\ imp' = [f EXCEPT !.writes = @ + 1,
                                             !.result = Return(ImproverFailure(
                                                Prefix(f.raw_output, RawKeep), debug_id))]
                         /\ logs' = WriteLog(debug_id,
                                             [transcript |-> f.transcript_text,
                                              raw_output |-> f.raw_output,
                                              exception |-> e])

\* improve_transcript's "except Exception as e" with frame f
ImproveExcept(f, e) ==
  LET g == [f EXCEPT !.outcome = e]
      R == CONFIG.LLM_RETRY_COUNT
  IN  IF HasAttemptsLeft(f.attempt, R)
        THEN IF f.attempt + 1 \in SemanticRange(R)
               THEN /\ imp' = [g EXCEPT !.system_prompt = CorrectivePrompt(@),
                                        !.attempt = @ + 1]
                    /\ UNCHANGED <<llm_pc, logs, logs_dir>>
               ELSE /\ imp' = [g EXCEPT !.system_prompt = CorrectivePrompt(@),
                                        !.result = Return(ImproverFailure(<<>>, NoDebugId))]
                    /\ llm_pc' = "done"
                    /\ UNCHANGED <<logs, logs_dir>>
        ELSE RecordAndReturn(g, e)

\* improve_transcript from the return of call_ollama_system on: the body of
\* its try, with frame f and the call's result res
ImproveContinue(f, res) ==
  IF res.kind = "raise" THEN ImproveExcept(f, res.exc)
  ELSE
    LET raw_output == res.value
        cleaned_output == strip_fencing(raw_output.chars)
        loaded == IF cleaned_output = <<>> THEN NotJson ELSE raw_output.json
        g == [f EXCEPT !.raw_output = raw_output.chars]
    IN  IF loaded = NotJson THEN ImproveExcept(g, "JSONDecodeError")
        ELSE IF ~validate_schema(loaded, IMPROVER_SCHEMA)
          THEN ImproveExcept(g, "ValueError")
        ELSE /\ imp' = [g EXCEPT !.task_json = loaded,
                                 !.outcome = "returned",
                                 !.result = Return(loaded)]
             /\ llm_pc' = "done"
             /\ UNCHANGED <<logs, logs_dir>>

\* the frame of the call_ollama_system this exchange belongs to: the one
\* running, or a new one when the last has ended
CallNow ==
  IF call.result = NoResult /\ call.posts > 0 THEN call
  ELSE [CallFrame0 EXCEPT !.system_prompt =
          IF entry = "improve_transcript" THEN imp.system_prompt ELSE "given"]

\* improve_transcript's frame with this exchange counted
ImpNow ==
  [imp EXCEPT !.posts = @ + 1,
              !.calls = IF CallNow.posts = 0 THEN @ + 1 ELSE @]

\* generate_code_from_task's frame with this exchange counted
GenNow ==
  [gen EXCEPT !.posts = @ + 1,
              !.calls = IF CallNow.posts = 0 THEN @ + 1 ELSE @]

CoderFailure(debug_id) == [error |-> "coder_failed", debug_id |-> debug_id]

\* generate_code_from_task's "except Exception as e" with frame f: the
\* record, then the error dictionary; trigger tells what raised e
GenerateExcept(f, trigger, e) ==
  /\ llm_pc' = "done"
  /\ \E fs \in FsOutcomes :
       IF ~logs_dir /\ fs = "makedirs raises OSError"
         THEN /\ gen' = [f EXCEPT !.outcome = trigger,
                                  !.result = Raise("OSError", "makedirs")]
              /\ UNCHANGED <<logs, logs_dir>>
       ELSE IF fs = "open raises OSError"
         THEN /\ gen' = [f EXCEPT !.outcome = trigger,
                                  !.result = Raise("OSError", "open")]
              /\ logs_dir' = TRUE
              /\ UNCHANGED logs
       ELSE
         \E now \in 0..MaxClock :
           LET debug_id == DebugId(now, f.user_input.chars)
           IN  /\ logs_dir' = TRUE
               /\ gen' = [f EXCEPT !.outcome = trigger,
                                   !.writes = @ + 1,
                                   !.result = Return(CoderFailure(debug_id))]
               /\ logs' = WriteLog(debug_id,
                                   [task |-> f.user_input, exception |-> e])

\* generate_code_from_task from the return of call_ollama_system on: the
\* body of its try, with frame f and the call's result res
GenerateContinue(f, res) ==
  IF res.kind = "raise" THEN GenerateExcept(f, res.exc, res.exc)
  ELSE
    LET raw_output == res.value
        cleaned_output == strip_fencing(raw_output.chars)
    IN  IF Strip(cleaned_output) = Sentinel
          THEN GenerateExcept(f, "refused", "RuntimeError")
          ELSE /\ gen' = [f EXCEPT
                            !.outcome = "returned",
                            !.result = Return(FinishArtifact(
                                         fix_simple_python2_prints(cleaned_output)))]
               /\ llm_pc' = "done"
               /\ UNCHANGED <<logs, logs_dir>>

\* what follows call_ollama_system's end with frame c
AfterCall(c) ==
  /\ call' = c
  /\ IF entry = "call_ollama_system"
       THEN llm_pc' = "done" /\ UNCHANGED <<imp, gen, logs, logs_dir>>
     ELSE IF entry = "improve_transcript"
       THEN ImproveContinue(ImpNow, c.result) /\ UNCHANGED gen
     ELSE GenerateContinue(GenNow, c.result) /\ UNCHANGED imp

\* call_ollama_system(...) called from outside
CallOllamaSystem ==
  /\ llm_pc = "idle"
  /\ entry = "call_ollama_system"
  /\ llm_pc' = "post"
  /\ UNCHANGED <<appVars, runVars, fence, logs, logs_dir, CONFIG, entry, call, imp, gen>>

\* improve_transcript(transcript_text) called: the loop begins, or with no
\* iteration to run the function returns its last line
ImproveTranscript ==
  /\ llm_pc = "idle"
  /\ entry = "improve_transcript"
  /\ IF 0 \in SemanticRange(CONFIG.LLM_RETRY_COUNT)
       THEN llm_pc' = "post" /\ UNCHANGED imp
       ELSE /\ llm_pc' = "done"
            /\ imp' = [imp EXCEPT !.result = Return(ImproverFailure(<<>>, NoDebugId))]
  /\ UNCHANGED <<appVars, runVars, fence, logs, logs_dir, CONFIG, entry, call, gen>>

\* generate_code_from_task(task_json) called: its one call begins
GenerateCodeFromTask ==
  /\ llm_pc = "idle"
  /\ entry = "generate_code_from_task"
  /\ llm_pc' = "post"
  /\ UNCHANGED <<appVars, runVars, fence, logs, logs_dir, CONFIG, entry, call, imp, gen>>

\* the bodies the backend may answer the function called with
ResponsesTo(e) == IF e = "generate_code_from_task" THEN CoderResponses ELSE Responses

\* one requests.post that raises, or whose status raise_for_status rejects
PostFails ==
  /\ llm_pc = "post"
  /\ \E e \in RequestExceptions :
       LET R == CONFIG.LLM_RETRY_COUNT
           c == [CallNow EXCEPT !.posts = @ + 1, !.fails = @ + 1,
                                !.raised = e,
                                !.last_err = AssignLastErr(@, e)]
           wait == BackoffWait(c.attempt)
           slept == IF MaySleepAndRetry(c.attempt, R)
                      THEN [c EXCEPT !.sleeps = Append(@, wait)] ELSE c
       IN  IF MaySleepAndRetry(c.attempt, R) /\ c.attempt < LastTransportAttempt(R)
             THEN /\ call' = [slept EXCEPT !.attempt = @ + 1]
                  /\ imp' = IF entry = "improve_transcript" THEN ImpNow ELSE imp
                  /\ gen' = IF entry = "generate_code_from_task" THEN GenNow ELSE gen
                  /\ UNCHANGED <<llm_pc, logs, logs_dir>>
             ELSE AfterCall([slept EXCEPT !.result = Raise("RuntimeError", c.last_err)])
  /\ UNCHANGED <<appVars, runVars, fence, CONFIG, entry>>

\* one requests.post answered with a 2xx status
PostSucceeds ==
  /\ llm_pc = "post"
  /\ \E resp \in ResponsesTo(entry) :
       AfterCall([CallNow EXCEPT !.posts = @ + 1, !.raised = "None",
                                 !.response = resp,
                                 !.result = ReadResponse(resp)])
  /\ UNCHANGED <<appVars, runVars, fence, CONFIG, entry>>

RetryCounts == 0..MaxRetryCount

Init ==
  /\ AppIdle
  /\ settings = [ollama_endpoint |-> TRUE, ollama_model |-> TRUE, coder |-> "plain"]
  /\ fence = FenceFrame0
  /\ logs = <<>>
  /\ logs_dir \in BOOLEAN
  /\ CONFIG \in [LLM_RETRY_COUNT : RetryCounts]
  /\ entry \in {"call_ollama_system", "improve_transcript", "generate_code_from_task"}
  /\ llm_pc = "idle"
  /\ call = CallFrame0
  /\ \E t \in Transcripts : imp = [S1Frame0 EXCEPT !.transcript_text = t]
  /\ IF entry = "generate_code_from_task"
       THEN \E task \in Tasks : gen = [S2Frame0 EXCEPT !.task_json = task,
                                                        !.user_input = json_dumps(task)]
       ELSE gen = S2Frame0
  /\ entry = "call_ollama_system" => logs_dir = FALSE
  /\ runs = NoRuns
  /\ clock = 0

Next ==
  \/ CallOllamaSystem
  \/ ImproveTranscript
  \/ GenerateCodeFromTask
  \/ PostFails
  \/ PostSucceeds

Spec == Init /\ [][Next]_vars

(***************************************************************************)
(* Two runs served at the same time: each run is one call of a function    *)
(* with a retry loop; the runs share CONFIG, the clock and logs/ and       *)
(* nothing else.                                                           *)
(***************************************************************************)
RunIds == {1, 2}

Agents == {"optimize_prompt", "get_raw_code"}
Stages == {"improve_transcript", "generate_code_from_task"}
RunFns == {"call_ollama_system"} \cup Agents \cup Stages

\* what a run is called with: the prompt, the transcript or the task as
\* json.dumps writes it (texts of different hash)
RunInputs == {<<"a">>, <<"b", "c">>}

\* the locals of a call live in the frame of that call: run i reads and
\* writes its own; here they live in one place all runs share
FrameOwner_Shared(i) == 1

\* the locals of a call live in the frame of that call: run i reads and
\* writes its own
FrameOwner(i) == i

\* the payload dictionary a call builds from its arguments
PayloadOf(fn, input, system_prompt) ==
  [to |-> fn, prompt |-> input, system |-> system_prompt]

NoPayload == [to |-> "none"]

\* the locals of a run before its function's first line
Loc0 ==
  [attempt |-> 0, retry_delay |-> 1, last_err |-> "None", payload |-> NoPayload,
   sem |-> 0, raw_output |-> Unbound, system_prompt |-> "none"]

\* a run not started: pc is where it stands ("start", "post", "exists",
\* "makedirs", "open", "write", "done"); posts, sleeps, sent and received
\* tell what it did and got so far, overlapped whether it posted while
\* another run was inside its loop; trigger is what its handler caught and
\* debug_id the name its handler made
RunFrame0(fn, input) ==
  [fn |-> fn, input |-> input, pc |-> "start", posts |-> 0, sleeps |-> <<>>,
   sent |-> NoPayload, received |-> <<>>, overlapped |-> FALSE,
   trigger |-> "none", debug_id |-> NoDebugId, wrote |-> FALSE,
   result |-> NoResult, loc |-> Loc0]

\* the first system prompt a function sends
FirstPrompt(fn) ==
  IF fn = "improve_transcript" THEN "IMPROVER_SYSTEM_PROMPT"
  ELSE IF fn \in Agents THEN "template" ELSE "given"

\* a function from its first line to its first requests.post; frame f holds
\* the locals it writes
StartStep(f, R) ==
  IF f.fn = "improve_transcript" /\ 0 \notin SemanticRange(R)
    THEN [f EXCEPT !.pc = "done",
                   !.result = Return(ImproverFailure(<<>>, NoDebugId))]
    ELSE [f EXCEPT !.pc = "post",
                   !.loc = [Loc0 EXCEPT
                              !.attempt = IF f.fn \in Agents THEN 0 ELSE 1,
                              !.system_prompt = FirstPrompt(f.fn),
                              !.payload = PayloadOf(f.fn, f.input, FirstPrompt(f.fn))]]

NoResp == [body |-> "none"]

RunReply(c) == JsonBody(PDict([response |-> PStr(c)]))

\* the answers a run of each function may get
RunResponses(fn) ==
  IF fn = "improve_transcript"
    THEN {RunReply(Content(<<"{", "}">>, OneTask)),
          RunReply(Content(<<"{", "}">>, JObj(<<>>)))}
  ELSE IF fn = "generate_code_from_task"
    THEN {RunReply(Content(<<"x">>, NotJson)), RunReply(Content(Sentinel, NotJson))}
  ELSE {RunReply(Content(<<" ", "h", "i", "\n">>, NotJson))}

\* what one requests.post of a run can end in
RunOutcomes(fn) ==
  IF fn \in Agents
    THEN {o \in AgentOutcomes({<<>>, <<" ", "a", "d", "d">>}) :
            o.kind \in {"RequestException", "ok"}}
  ELSE {[kind |-> "raise", exc |-> "ConnectionError", resp |-> NoResp]}
         \cup {[kind |-> "resp", exc |-> "None", resp |-> r] : r \in RunResponses(fn)}

\* one pass of call_ollama_system's loop with locals loc and outcome o
CallAttempt(loc, o, R) ==
  IF o.kind = "raise"
    THEN LET last == AssignLastErr(loc.last_err, o.exc)
             retry == MaySleepAndRetry(loc.attempt, R)
             slept == IF retry THEN <<BackoffWait(loc.attempt)>> ELSE <<>>
         IN  IF retry /\ loc.attempt < LastTransportAttempt(R)
               THEN [loc |-> [loc EXCEPT !.last_err = last, !.attempt = @ + 1],
                     slept |-> slept, result |-> NoResult]
               ELSE [loc |-> [loc EXCEPT !.last_err = last],
                     slept |-> slept, result |-> Raise("RuntimeError", last)]
    ELSE [loc |-> loc, slept |-> <<>>, result |-> ReadResponse(o.resp)]

\* one pass of the loop of optimize_prompt or get_raw_code in frame f
AgentAttempt(f, o) ==
  LET max_retries == IF f.fn = "optimize_prompt" THEN OptMaxRetries ELSE CoderMaxRetries
      fallback == IF f.fn = "optimize_prompt" THEN f.input ELSE <<>>
  IN  IF o.kind = "RequestException" /\ f.loc.attempt < max_retries - 1
        THEN [f EXCEPT !.sleeps = Append(@, f.loc.retry_delay),
                       !.loc.retry_delay = @ * 2,
                       !.loc.attempt = @ + 1]
        ELSE [f EXCEPT !.pc = "done",
                       !.result = Return(IF o.kind = "ok" /\ o.response # <<>>
                                           THEN Strip(o.response)
                                           ELSE fallback)]

\* improve_transcript in frame f from the end res of its call on
ImproveAfterCall(f, res, R) ==
  LET loaded == IF res.kind = "raise" \/ strip_fencing(res.value.chars) = <<>>
                  THEN NotJson ELSE res.value.json
      e == IF res.kind = "raise" THEN res.exc
           ELSE IF loaded = NotJson THEN "JSONDecodeError"
           ELSE IF ~validate_schema(loaded, IMPROVER_SCHEMA) THEN "ValueError"
           ELSE "none"
      g == IF res.kind = "return" THEN [f EXCEPT !.loc.raw_output = res.value.chars]
           ELSE f
      corrective == CorrectivePrompt(f.loc.system_prompt)
  IN  IF e = "none" THEN [g EXCEPT !.pc = "done", !.result = Return(loaded)]
      ELSE IF ~HasAttemptsLeft(g.loc.sem, R)
        THEN [g EXCEPT !.pc = "exists", !.trigger = e]
      ELSE IF g.loc.sem + 1 \in SemanticRange(R)
        THEN [g EXCEPT !.loc.sem = @ + 1,
                       !.loc.attempt = 1,
                       !.loc.last_err = "None",
                       !.loc.system_prompt = corrective,
                       !.loc.payload = PayloadOf(f.fn, f.input, corrective)]
      ELSE [g EXCEPT !.pc = "done",
                     !.result = Return(ImproverFailure(<<>>, NoDebugId))]

\* generate_code_from_task in frame f from the end res of its call on
GenerateAfterCall(f, res) ==
  IF res.kind = "raise" THEN [f EXCEPT !.pc = "exists", !.trigger = res.exc]
  ELSE LET cleaned_output == strip_fencing(res.value.chars)
       IN  IF Strip(cleaned_output) = Sentinel
             THEN [f EXCEPT !.pc = "exists", !.trigger = "refused"]
             ELSE [f EXCEPT !.pc = "done",
                            !.result = Return(FinishArtifact(
                                         fix_simple_python2_prints(cleaned_output)))]

\* one requests.post of the run whose frame, with the locals it uses, is f,
\* and what the function does up to its next post, its handler or its end
PostStep(f, o, R) ==
  LET counted == [f EXCEPT !.posts = @ + 1,
                           !.received = Append(@, o),
                           !.sent = f.loc.payload]
  IN  IF f.fn \in Agents THEN AgentAttempt(counted, o)
      ELSE LET c == CallAttempt(f.loc, o, R)
               g == [counted EXCEPT !.loc = c.loc, !.sleeps = @ \o c.slept]
           IN  IF c.result = NoResult THEN g
               ELSE IF f.fn = "call_ollama_system"
                 THEN [g EXCEPT !.pc = "done", !.result = c.result]
               ELSE IF f.fn = "improve_transcript"
                 THEN ImproveAfterCall(g, c.result, R)
               ELSE GenerateAfterCall(g, c.result)

\* run i's frame with the locals it uses
FrameOf(i) == [runs[i] EXCEPT !.loc = runs[FrameOwner(i)].loc]

\* the frames after run i's step left frame g
Place(i, g) ==
  [j \in RunIds |->
     IF j = i
       THEN IF FrameOwner(i) = i THEN g ELSE [g EXCEPT !.loc = runs[i].loc]
     ELSE IF j = FrameOwner(i) THEN [runs[j] EXCEPT !.loc = g.loc]
     ELSE runs[j]]

\* another run than i stands between its first post and its end
OtherInLoop(i) ==
  \E j \in RunIds \ {i} : runs[j].pc = "post" /\ runs[j].posts > 0

\* run i is called and reaches its first post
RunStart(i) ==
  /\ runs[i].pc = "start"
  /\ runs' = Place(i, StartStep(FrameOf(i), CONFIG.LLM_RETRY_COUNT))
  /\ UNCHANGED <<appVars, fence, logs, llmVars, clock>>

\* one requests.post of run i
RunPost(i) ==
  /\ runs[i].pc = "post"
  /\ \E o \in RunOutcomes(runs[i].fn) :
       LET g == PostStep(FrameOf(i), o, CONFIG.LLM_RETRY_COUNT)
       IN  runs' = Place(i, [g EXCEPT !.overlapped = @ \/ OtherInLoop(i)])
  /\ UNCHANGED <<appVars, fence, logs, llmVars, clock>>

\* the handler of run i: "if not os.path.exists('logs')"
RunExists(i) ==
  /\ runs[i].pc = "exists"
  /\ runs' = [runs EXCEPT ![i].pc = IF logs_dir THEN "open" ELSE "makedirs"]
  /\ UNCHANGED <<appVars, fence, logs, llmVars, clock>>

\* the handler of run i: os.makedirs('logs'), which raises FileExistsError
\* when the directory is there
RunMakedirs(i) ==
  /\ runs[i].pc = "makedirs"
  /\ IF logs_dir
       THEN /\ runs' = [runs EXCEPT ![i].pc = "done",
                                    ![i].result = Raise("FileExistsError", "makedirs")]
            /\ UNCHANGED logs_dir
       ELSE /\ runs' = [runs EXCEPT ![i].pc = "open"]
            /\ logs_dir' = TRUE
  /\ UNCHANGED <<appVars, fence, logs, CONFIG, entry, llm_pc, call, imp, gen, clock>>

\* a file open(path, "w") has just made or emptied
EmptyFile == [empty |-> TRUE]

\* the handler of run i: the name from the clock and the hash of its input,
\* and open(f"logs/{debug_id}", "w")
RunOpen(i) ==
  /\ runs[i].pc = "open"
  /\ LET debug_id == DebugId(clock, runs[i].input)
     IN  /\ runs' = [runs EXCEPT ![i].pc = "write", ![i].debug_id = debug_id]
         /\ logs' = WriteLog(debug_id, EmptyFile)
  /\ UNCHANGED <<appVars, fence, llmVars, clock>>

\* what the handler of the run with frame f writes into its file
RecordOf(f) ==
  IF f.fn = "improve_transcript"
    THEN [transcript |-> f.input, raw_output |-> f.loc.raw_output,
          exception |-> IF f.loc.raw_output = Unbound THEN "not written"
                        ELSE f.trigger]
    ELSE [task |-> f.input, exception |-> f.trigger]

\* what the handler of the run with frame f ends with once its file is
\* written
HandlerResult(f) ==
  IF f.fn = "improve_transcript"
    THEN IF f.loc.raw_output = Unbound
           THEN Raise("UnboundLocalError", "raw_output")
           ELSE Return(ImproverFailure(Prefix(f.loc.raw_output, RawKeep), f.debug_id))
    ELSE Return(CoderFailure(f.debug_id))

\* the file after a run's buffered lines went into it at its close: its
\* record, or, when another handle wrote the file in between, possibly
\* that record with the rest of what was there behind it
FileAfterClose(old, record) ==
  IF old \in {EmptyFile, record} THEN {record}
  ELSE {record, [head |-> record, tail |-> old]}

\* the handler of run i: the f.write lines, the file's close and the return
RunWrite(i) ==
  /\ runs[i].pc = "write"
  /\ LET f == FrameOf(i)
     IN  /\ \E file \in FileAfterClose(logs[f.debug_id], RecordOf(f)) :
              logs' = WriteLog(f.debug_id, file)
         /\ runs' = [runs EXCEPT ![i].pc = "done", ![i].wrote = TRUE,
                                 ![i].result = HandlerResult(f)]
  /\ UNCHANGED <<appVars, fence, llmVars, clock>>

\* time.time() reaches the next second; only a handler about to make its
\* record's name reads the clock, so the seconds that pass while none
\* stands there are left out
Tick ==
  /\ clock < MaxClock
  /\ \E i \in RunIds : runs[i].pc = "open"
  /\ clock' = clock + 1
  /\ UNCHANGED <<appVars, fence, logs, llmVars, runs>>

\* LLM_RETRY_COUNT of two runs side by side: no retry, one retry
RunRetryCounts == {0, 1}

InitRuns ==
  /\ AppIdle
  /\ settings = [ollama_endpoint |-> TRUE, ollama_model |-> TRUE, coder |-> "plain"]
  /\ fence = FenceFrame0
  /\ logs = <<>>
  /\ logs_dir \in BOOLEAN
  /\ CONFIG \in [LLM_RETRY_COUNT : RunRetryCounts]
  /\ entry = "none"
  /\ llm_pc = "idle"
  /\ call = CallFrame0
  /\ imp = S1Frame0
  /\ gen = S2Frame0
  /\ clock = 0
  /\ runs \in [RunIds -> {RunFrame0(fn, input) : fn \in RunFns, input \in RunInputs}]

NextRuns ==
  \/ \E i \in RunIds : RunStart(i)
  \/ \E i \in RunIds : RunPost(i)
  \/ \E i \in RunIds : RunExists(i)
  \/ \E i \in RunIds : RunMakedirs(i)
  \/ \E i \in RunIds : RunOpen(i)
  \/ \E i \in RunIds : RunWrite(i)
  \/ Tick

SpecRuns == InitRuns /\ [][NextRuns]_vars

(***************************************************************************)
(* Claims about call_ollama_system and improve_transcript (Spec)           *)
(***************************************************************************)
\* call_ollama_system has returned or raised
CallEnded == call.result # NoResult

\* one of its exchanges was answered with a 2xx status
CallAnswered == call.response.body # "none"

C4_AllAttemptsFailReturnsValue ==
  (CallEnded /\ call.fails = CONFIG.LLM_RETRY_COUNT + 1)
    => call.result.kind = "return"

\* C4 as the code has it: when all R + 1 attempts fail, call_ollama_system
\* raises RuntimeError, carrying the error of the last attempt, after R + 1
\* attempts; improve_transcript catches it as the end of one iteration and
\* does not raise it further
C4_AllAttemptsFailRaises ==
  (CallEnded /\ call.fails = CONFIG.LLM_RETRY_COUNT + 1)
    => /\ call.result = Raise("RuntimeError", call.raised)
       /\ call.raised \in RequestExceptions
       /\ call.posts = CONFIG.LLM_RETRY_COUNT + 1
       /\ ~CallAnswered
       /\ entry = "improve_transcript"
            => /\ imp.outcome = "RuntimeError"
               /\ imp.result.kind = "raise" => imp.result.exc # "RuntimeError"

\* C4 witness: with R = 2 a direct call whose three attempts failed, the
\* first otherwise than the last, ended by raising
C4_Witness ==
  /\ entry = "call_ollama_system"
  /\ CONFIG.LLM_RETRY_COUNT = 2
  /\ call.fails = 3
  /\ call.sleeps = <<1, 2>>
  /\ call.result = Raise("RuntimeError", "HTTPError")

\* what C7 calls a task description: an object with a string summary, a
\* requirements list of 1 to 7 strings, a constraints list of strings and,
\* if present, an example_io object
IsTaskDescription(d) ==
  /\ d.t = "object"
  /\ {"summary", "requirements", "constraints"} \subseteq DOMAIN d.fields
  /\ d.fields["summary"].t = "string"
  /\ d.fields["requirements"].t = "array"
  /\ Len(d.fields["requirements"].items) \in 1..7
  /\ \A i \in 1..Len(d.fields["requirements"].items) :
       d.fields["requirements"].items[i].t = "string"
  /\ d.fields["constraints"].t = "array"
  /\ \A i \in 1..Len(d.fields["constraints"].items) :
       d.fields["constraints"].items[i].t = "string"
  /\ "example_io" \in DOMAIN d.fields => d.fields["example_io"].t = "object"

\* the call just ended returned a text that is JSON
CallReturnedJson ==
  /\ CallEnded
  /\ call.result.kind = "return"
  /\ call.result.value.json # NotJson

\* C5: improve_transcript makes at most R calls of call_ollama_system, each
\* of at most R + 1 exchanges, so at most R * (R + 1) exchanges in all (6
\* with R = 2), and ends with the first call whose output parses and
\* validates, returning that output's value
C5_BoundedAttempts ==
  LET R == CONFIG.LLM_RETRY_COUNT
  IN  entry = "improve_transcript" =>
        /\ imp.calls <= R
        /\ call.posts <= R + 1
        /\ imp.posts <= R * (R + 1)
        /\ R = 2 => imp.posts <= 6
        /\ (CallReturnedJson /\ IsTaskDescription(call.result.value.json))
             => /\ llm_pc = "done"
                /\ imp.result = Return(call.result.value.json)
        /\ llm_pc = "done" => imp.result # NoResult

\* C5 witness: with R = 2, six exchanges were made and the second call's
\* last one brought a valid task description
C5_Witness ==
  /\ entry = "improve_transcript"
  /\ CONFIG.LLM_RETRY_COUNT = 2
  /\ imp.calls = 2
  /\ imp.posts = 6
  /\ imp.outcome = "returned"
  /\ llm_pc = "done"

\* improve_transcript's latest iteration ended in a semantic failure: its
\* output did not parse, or did not validate
SemanticFailure == imp.outcome \in {"JSONDecodeError", "ValueError"}

\* what C6 says of a call that ended with the semantic failure of its last
\* iteration: one record written, holding that iteration's raw output, and
\* the error dictionary returned with the tag improver_parse_failed, the
\* first 100 characters at most of that raw output and the record's id
RecordedAndReturned ==
  LET out == call.result.value.chars
      ret == imp.result.value
  IN  /\ imp.calls = CONFIG.LLM_RETRY_COUNT
      /\ imp.writes = 1
      /\ imp.result.kind = "return"
      /\ ret.error = "improver_parse_failed"
      /\ Len(ret.raw) <= 100
      /\ ret.raw = SubSeq(out, 1, IF Len(out) < 100 THEN Len(out) ELSE 100)
      /\ DOMAIN logs = {ret.debug_id}
      /\ logs[ret.debug_id] = [transcript |-> imp.transcript_text,
                               raw_output |-> out,
                               exception |-> imp.outcome]

\* what C6 says of the iterations before the last: as long as
\* improve_transcript has not ended it has written nothing, and after a
\* failed iteration that is not the last it goes on to another call
EarlierFailuresRetry ==
  /\ llm_pc # "done" => (imp.writes = 0 /\ logs = <<>>)
  /\ (llm_pc = "post" /\ CallEnded)
       => /\ imp.outcome # "returned"
          /\ imp.calls < CONFIG.LLM_RETRY_COUNT
          /\ imp.attempt = imp.calls

\* C6: when the last iteration of improve_transcript ends in a semantic
\* failure (its output does not parse, or does not validate),
\* improve_transcript writes one record and returns the error dictionary
\* with the tag, the first 100 characters at most of the raw output and the
\* record's id; on an earlier failed iteration it writes nothing and retries.
C6_LastSemanticFailureRecorded ==
  entry = "improve_transcript" =>
    /\ (llm_pc = "done" /\ SemanticFailure) => RecordedAndReturned
    /\ EarlierFailuresRetry

\* C6 where the file system takes the record: the same, for the calls in
\* which neither os.makedirs nor open raised
C6_RecordedWhenPersisted ==
  entry = "improve_transcript" =>
    /\ (llm_pc = "done" /\ SemanticFailure /\ imp.result.kind = "return")
         => RecordedAndReturned
    /\ (llm_pc = "done" /\ SemanticFailure /\ imp.result.kind = "raise")
         => imp.result.exc = "OSError"
    /\ EarlierFailuresRetry

\* C6 witness: the last iteration's output of 102 characters did not
\* validate; the dictionary returned holds its first 100
C6_Witness ==
  /\ entry = "improve_transcript"
  /\ llm_pc = "done"
  /\ imp.outcome = "ValueError"
  /\ imp.calls = 2
  /\ Len(call.result.value.chars) = 102
  /\ imp.result.kind = "return"
  /\ Len(imp.result.value.raw) = 100
  /\ imp.result.value.debug_id \in DOMAIN logs

\* C7: an output that is JSON is accepted by improve_transcript exactly if
\* it is a task description (so one without requirements, with 8 or with 0
\* is rejected and one with 1 accepted), a rejected one ends the iteration
\* as a schema failure, and every value improve_transcript returns as its
\* success is a task description
C7_SchemaEnforced ==
  entry = "improve_transcript" =>
    /\ CallReturnedJson =>
         /\ imp.outcome = "returned" <=> IsTaskDescription(call.result.value.json)
         /\ imp.outcome \in {"returned", "ValueError"}
    /\ imp.outcome = "returned"
         => /\ imp.result.kind = "return"
            /\ IsTaskDescription(imp.result.value)
            /\ imp.task_json = imp.result.value

\* C7 witness: an output with exactly one requirement was returned as the
\* task description
C7_Witness ==
  /\ entry = "improve_transcript"
  /\ imp.outcome = "returned"
  /\ Len(imp.result.value.fields["requirements"].items) = 1
  /\ "example_io" \notin DOMAIN imp.result.value.fields

(***************************************************************************)
(* Claims about the reading of a 2xx response (Spec)                       *)
(***************************************************************************)
\* member k of dictionary d is a str
IsStrAt(d, k) == d.py = "dict" /\ k \in DOMAIN d.f /\ d.f[k].py = "str"

\* dictionary d holds a dictionary "message" that holds a str "content"
HasMessageText(d) ==
  /\ d.py = "dict" /\ "message" \in DOMAIN d.f
  /\ IsStrAt(d.f["message"], "content")

\* dictionary d holds a dictionary "message" that holds a "content"
HasMessageContent(d) ==
  /\ d.py = "dict" /\ "message" \in DOMAIN d.f
  /\ d.f["message"].py = "dict" /\ "content" \in DOMAIN d.f["message"].f

\* the text of the str at member k of d, without its surrounding whitespace
TextAt(d, k) == Return([d.f[k].s EXCEPT !.chars = Strip(@)])

\* dictionary d holds a non-empty list "choices" whose first item is a
\* dictionary
HasFirstChoice(d) ==
  /\ d.py = "dict" /\ "choices" \in DOMAIN d.f
  /\ d.f["choices"].py = "list"
  /\ Len(d.f["choices"].items) > 0
  /\ d.f["choices"].items[1].py = "dict"

GenEnded == entry = "generate_code_from_task" /\ llm_pc = "done"

\* the coder's one call returned a text that is the refusal token once the
\* fences and the surrounding white space are taken off
CoderRefused ==
  /\ GenEnded
  /\ call.result.kind = "return"
  /\ Strip(strip_fencing(call.result.value.chars)) = Sentinel

\* generate_code_from_task returned its error dictionary and the record the
\* dictionary names is in logs/
FailureReturnedAndRecorded ==
  /\ gen.outcome # "returned"
  /\ gen.result.kind = "return"
  /\ gen.result.value.error = "coder_failed"
  /\ gen.writes = 1
  /\ DOMAIN logs = {gen.result.value.debug_id}
  /\ logs[gen.result.value.debug_id].task = gen.user_input

\* C12: when the coder's output is exactly the refusal token
\* <CANNOT_COMPLY>, generate_code_from_task makes no further call, writes a
\* record and returns its error dictionary, never the token as the code.
C12_RefusalIsTerminal ==
  CoderRefused =>
    /\ gen.calls = 1
    /\ gen.outcome = "refused"
    /\ FailureReturnedAndRecorded

\* C12 where the file system takes the record: no further call and never
\* the token as the code; the record and the error dictionary unless
\* os.makedirs or open raised, and then OSError leaves the function
C12_RefusalWhenPersisted ==
  CoderRefused =>
    /\ gen.calls = 1
    /\ gen.outcome = "refused"
    /\ gen.result.kind = "return" => FailureReturnedAndRecorded
    /\ gen.result.kind = "raise" => (gen.result.exc = "OSError" /\ logs = <<>>)

\* C12 witness: the token came fenced and with a line break around it, and
\* the call ended with the error dictionary and its record
C12_Witness ==
  /\ CoderRefused
  /\ call.result.value.chars # Sentinel
  /\ call.posts = 1
  /\ FailureReturnedAndRecorded

\* C13: every text generate_code_from_task returns as code ends with one
\* line break, and what stands before that line break neither begins nor
\* ends with white space (so with no blank line).
C13_ArtifactEndsWithOneLineBreak ==
  (GenEnded /\ gen.outcome = "returned") =>
    LET artifact == gen.result.value
        code == SubSeq(artifact, 1, Len(artifact) - 1)
    IN  /\ gen.result.kind = "return"
        /\ Len(artifact) >= 1
        /\ artifact[Len(artifact)] = "\n"
        /\ code = Strip(code)
        /\ code # <<>> => (~IsSpace(code[1]) /\ ~IsSpace(code[Len(code)]))

\* C13 witness: the coder answered code with two blank lines before and
\* after it, and the code returned is that line and one line break
C13_Witness ==
  /\ GenEnded
  /\ call.result.kind = "return"
  /\ call.response = JsonBody(PDict([response |->
        PStr(Content(<<"\n", "\n", "x", "\n", "\n">>, NotJson))]))
  /\ gen.result = Return(<<"x", "\n">>)

(***************************************************************************)
(* Claims about both stages' failure handlers (Spec)                       *)
(***************************************************************************)
IsStage == entry \in {"improve_transcript", "generate_code_from_task"}

StageEnded == IsStage /\ llm_pc = "done"

\* the frame of the stage called, in the fields both frames have
StageResult == IF entry = "improve_transcript" THEN imp.result ELSE gen.result
StageOutcome == IF entry = "improve_transcript" THEN imp.outcome ELSE gen.outcome
StageWrites == IF entry = "improve_transcript" THEN imp.writes ELSE gen.writes

\* C14: recording a failure never throws past the stage: no call of
\* improve_transcript or generate_code_from_task ends with the OSError of
\* os.makedirs or open leaving it; the stage returns its error dictionary.
C14_RecordingNeverThrows ==
  (StageEnded /\ StageOutcome # "returned") =>
    (StageResult.kind = "raise" => StageResult.exc # "OSError")

\* the stage called returned its error dictionary
StageReturnedFailure ==
  StageEnded /\ StageOutcome # "returned" /\ StageResult.kind = "return"

\* what made the stage fail, from how its last try ended
SchemaTrigger == StageOutcome \in {"JSONDecodeError", "ValueError"}
RefusalTrigger == StageOutcome = "refused"
TransportTrigger == StageOutcome = "RuntimeError"

\* C17: the error dictionary a stage returns is tagged by what made it
\* fail: output that does not parse or validate, the refusal token, and
\* transport attempts used up carry three different tags.
C17_FailuresTypedByTrigger ==
  StageReturnedFailure =>
    LET tag == StageResult.value.error
    IN  /\ SchemaTrigger => tag = "improver_parse_failed"
        /\ RefusalTrigger => tag = "coder_failed"
        /\ TransportTrigger => tag \notin {"improver_parse_failed", "coder_failed"}

\* what the code does: one tag for each stage, whatever made it fail
C17_OneTagPerStage ==
  StageReturnedFailure =>
    StageResult.value.error =
      IF entry = "improve_transcript" THEN "improver_parse_failed" ELSE "coder_failed"

\* C18: improve_transcript never raises: whatever the backend does, and
\* also when every post of every call fails so that raw_output was never
\* bound, it ends by returning a value (the OSError of os.makedirs and
\* open, which is C14's, set aside).
C18_ImproveNeverRaises ==
  (entry = "improve_transcript" /\ llm_pc = "done") =>
    (imp.result.kind = "return" \/ imp.result.exc = "OSError")

\* what the code does: it raises UnboundLocalError when its last iteration
\* failed, no call of it ever returned an output and the record's file was
\* opened
C18_RaisesWhenNothingReceived ==
  (entry = "improve_transcript" /\ llm_pc = "done" /\ imp.result.kind = "raise"
     /\ imp.result.exc # "OSError")
    => /\ imp.result.exc = "UnboundLocalError"
       /\ imp.raw_output = Unbound
       /\ call.result.kind = "raise"
       /\ imp.calls = CONFIG.LLM_RETRY_COUNT
       /\ imp.writes = 1

\* the error dictionary returned names a record written in this call
ReturnedIdNamesRecord ==
  /\ StageWrites = 1
  /\ StageResult.value.debug_id \in DOMAIN logs

\* C20: whenever improve_transcript or generate_code_from_task returns its
\* error dictionary, it wrote a record in that call and the debug_id
\* returned names it, for every LLM_RETRY_COUNT, 0 included.
C20_FailureHasRecord ==
  StageReturnedFailure => ReturnedIdNamesRecord

\* what the code does: the same, but for improve_transcript with an
\* LLM_RETRY_COUNT of 0, which makes no call, writes nothing and returns
\* an empty debug_id
C20_RecordUnlessNoIteration ==
  StageReturnedFailure =>
    IF entry = "improve_transcript" /\ CONFIG.LLM_RETRY_COUNT = 0
      THEN /\ imp.result = Return(ImproverFailure(<<>>, NoDebugId))
           /\ imp.calls = 0 /\ imp.writes = 0 /\ logs = <<>>
      ELSE ReturnedIdNamesRecord

(***************************************************************************)
(* Claims about process_audio's failure responses (SpecApp)                *)
(***************************************************************************)
\* process_audio answered with a failure: a 4xx or 5xx status
IsFailureResponse == pa_pc = "done" /\ http_response.status >= 400

\* C16: every failure response of process_audio (no audio path, no usable
\* audio, configuration error, no code from the coder) holds an error_type
\* tag beside its error text.
C16_FailureResponsesTagged ==
  IsFailureResponse =>
    /\ "error" \in DOMAIN http_response.body
    /\ "error_type" \in DOMAIN http_response.body

\* what process_audio does: of its failure responses only the one for no
\* usable audio holds the tag
C16_OnlyNoAudioTagged ==
  IsFailureResponse =>
    /\ "error" \in DOMAIN http_response.body
    /\ "error_type" \in DOMAIN http_response.body <=> http_response = NoAudioResponse

(***************************************************************************)
(* Claims about runs served at the same time (SpecRuns)                    *)
(***************************************************************************)
\* the run with frame f wrote a failure record
RunRecorded(f) == f.pc = "done" /\ f.wrote

\* C15: any two failure records get different names, also those of two
\* runs that fail on the same input within the same second, so that each
\* record written stays in logs/ as it was written.
C15_RecordIdsUnique ==
  \A i, j \in RunIds :
    (i # j /\ RunRecorded(runs[i]) /\ RunRecorded(runs[j])) =>
      /\ runs[i].debug_id # runs[j].debug_id
      /\ logs[runs[i].debug_id] = RecordOf(FrameOf(i))

\* what the code does: two records get different names if the runs' inputs
\* differ in hash or their handlers read different seconds, and then both
\* stay as written
C15_UniqueAcrossInputsAndSeconds ==
  \A i, j \in RunIds :
    (i # j /\ RunRecorded(runs[i]) /\ RunRecorded(runs[j])
       /\ (Hash(runs[i].input) # Hash(runs[j].input)
             \/ runs[i].debug_id.time # runs[j].debug_id.time)) =>
      /\ runs[i].debug_id # runs[j].debug_id
      /\ logs[runs[i].debug_id] = RecordOf(FrameOf(i))

\* the frame a run called with fn and input has, alone, after the posts of
\* which received lists the outcomes
RECURSIVE AloneFrom(_, _, _)
AloneFrom(f, received, R) ==
  IF received = <<>> \/ f.pc # "post" THEN f
  ELSE AloneFrom(PostStep(f, Head(received), R), Tail(received), R)

Alone(fn, input, received, R) ==
  AloneFrom(StartStep(RunFrame0(fn, input), R), received, R)

\* what a run did at its retry loops: its posts, its waits, the payload it
\* sent last, where it stands (its handler taken as one place) and, when
\* it ended without its handler, its result
Bookkeeping(f) ==
  [posts |-> f.posts, sleeps |-> f.sleeps, sent |-> f.sent,
   at |-> IF f.trigger # "none" THEN "handler" ELSE f.pc,
   trigger |-> f.trigger,
   result |-> IF f.trigger # "none" THEN NoResult ELSE f.result]

PrimaryPrompt == "IMPROVER_SYSTEM_PROMPT"

\* the instruction each call of call_ollama_system was given: the first
\* call of improve_transcript the primary one, every later call another
PromptsInOrder ==
  entry = "improve_transcript" =>
    /\ llm_pc = "idle" => imp.system_prompt = PrimaryPrompt
    /\ imp.calls >= 1 =>
         /\ call.system_prompt =
              (IF imp.calls = 1 THEN PrimaryPrompt ELSE "EXACTLY one JSON object")
         /\ call.system_prompt = PrimaryPrompt <=> imp.calls = 1

\* once improve_transcript has left the primary instruction it does not
\* take it up again
NeverPrimaryAgain ==
  (entry = "improve_transcript" /\ imp.system_prompt # PrimaryPrompt)
    => imp'.system_prompt # PrimaryPrompt

Min(a, b) == IF a < b THEN a ELSE b

\* C22: with retry count R, call_ollama_system tries again after a failed
\* attempt k (connection failure, status that is not 2xx, timeout) only
\* while k <= R, waits 2^(k-1) seconds between failed attempt k and attempt
\* k + 1, does not wait after its last failed attempt, and makes no more
\* than R + 1 attempts.
C22_BackoffBetweenAttempts ==
  LET R == CONFIG.LLM_RETRY_COUNT
  IN  call.posts > 0 =>
        /\ call.posts <= R + 1
        /\ call.attempt <= R + 1
        /\ Len(call.sleeps) = Min(call.fails, R)
        /\ \A k \in 1..Len(call.sleeps) : call.sleeps[k] = 2 ^ (k - 1)
        /\ ~CallEnded => (call.fails <= R /\ call.attempt = call.fails + 1)
        /\ (CallEnded /\ ~CallAnswered)
             => (call.fails = R + 1 /\ call.posts = R + 1
                 /\ Len(call.sleeps) = R)

\* C22 witness: with R = 2 three attempts failed, the last by a timeout;
\* the call waited 1 and 2 seconds, and did not wait after the third
C22_Witness ==
  /\ CONFIG.LLM_RETRY_COUNT = 2
  /\ call.posts = 3
  /\ call.fails = 3
  /\ call.raised = "Timeout"
  /\ call.sleeps = <<1, 2>>
  /\ call.result.kind = "raise"

(***************************************************************************)
(* Claims about generate_code_from_task's one call (Spec)                  *)
(***************************************************************************)
\* the coder's call ended with its attempts used up
CoderTransportFailed ==
  GenEnded /\ call.result.kind = "raise" /\ call.result.exc = "RuntimeError"

\* generate_code_from_task called call_ollama_system once, which made
\* R + 1 posts at most
OneCallOnly ==
  /\ gen.calls = 1
  /\ gen.posts = call.posts
  /\ gen.posts <= CONFIG.LLM_RETRY_COUNT + 1

\* C23: generate_code_from_task calls call_ollama_system exactly once (at
\* most retries + 1 posts), and when that call fails at transport level it
\* returns no code but writes a failure record and returns its error
\* dictionary.
C23_SingleSemanticAttempt ==
  /\ GenEnded => OneCallOnly
  /\ CoderTransportFailed =>
       /\ gen.outcome = "RuntimeError"
       /\ gen.posts = CONFIG.LLM_RETRY_COUNT + 1
       /\ FailureReturnedAndRecorded

\* C23 where the file system takes the record: the same, the record and
\* the error dictionary unless os.makedirs or open raised, and then
\* OSError leaves the function
C23_SingleAttemptWhenPersisted ==
  /\ GenEnded => OneCallOnly
  /\ CoderTransportFailed =>
       /\ gen.outcome = "RuntimeError"
       /\ gen.posts = CONFIG.LLM_RETRY_COUNT + 1
       /\ gen.result.kind = "return" => FailureReturnedAndRecorded
       /\ gen.result.kind = "raise" => (gen.result.exc = "OSError" /\ logs = <<>>)

(***************************************************************************)
(* Claims about the raw output improve_transcript records (Spec)           *)
(***************************************************************************)
\* improve_transcript wrote its record and returned its error dictionary
ImproverRecorded ==
  /\ entry = "improve_transcript"
  /\ llm_pc = "done"
  /\ imp.outcome # "returned"
  /\ imp.result.kind = "return"
  /\ imp.writes = 1

\* the record improve_transcript's error dictionary names
ImproverRecord == logs[imp.result.value.debug_id]

\* C24: the raw output in improve_transcript's failure record, and cut to
\* 100 characters in the dictionary returned, is the output of the last
\* semantic attempt; when that attempt got no output (its call raised) the
\* record and the dictionary show no output, not that of an earlier attempt.
C24_RawOutputOfLastAttempt ==
  ImproverRecorded =>
    IF call.result.kind = "return"
      THEN /\ ImproverRecord.raw_output = call.result.value.chars
           /\ imp.result.value.raw = Prefix(call.result.value.chars, RawKeep)
      ELSE /\ ImproverRecord.raw_output = <<>>
           /\ imp.result.value.raw = <<>>

\* what the code does: the record and the dictionary show what the local
\* raw_output holds, which is the output of the last call that returned,
\* also when the last attempt's call raised
C24_RawOutputOfLastAnswer ==
  ImproverRecorded =>
    /\ ImproverRecord.raw_output = imp.raw_output
    /\ imp.result.value.raw = Prefix(imp.raw_output, RawKeep)
    /\ imp.raw_output # Unbound
    /\ call.result.kind = "return" => imp.raw_output = call.result.value.chars

(***************************************************************************)
(* Claims about the end of a run of process_audio (SpecAppLive)            *)
(***************************************************************************)
\* how far a run of process_audio has come
StageRank(pc) ==
  CASE pc = "idle" -> 0
    [] pc = "optimize" -> 1
    [] pc = "coder" -> 2
    [] pc = "done" -> 3

\* a run makes three posts at most to each agent, and its end is a response
BoundedExchanges ==
  /\ opt.posts <= 3
  /\ cod.posts <= 3
  /\ pa_pc = "done" <=> http_response # NoResponse
  /\ pa_pc = "done" => (http_response.status = 200 \/ http_response.status >= 400)

\* a run does not go back to an earlier stage
NeverBack == StageRank(pa_pc') >= StageRank(pa_pc)

\* C25: every run of process_audio ends: where each requests.post returns
\* or times out, a run that has begun reaches its response (code or error)
\* after three posts at most of the optimizer and three at most of the
\* coder, and never goes back to an earlier stage.
C25_RunTerminates ==
  /\ (pa_pc # "idle") ~> (pa_pc = "done")
  /\ []BoundedExchanges
  /\ [][NeverBack]_vars

\* C25 witness: a run that ended after three posts of the optimizer and
\* three of the coder
C25_Witness ==
  /\ pa_pc = "done"
  /\ opt.posts = 3
  /\ cod.posts = 3
  /\ http_response.status = 500

(***************************************************************************)
(* Claims about telling improve_transcript's results apart (Spec)          *)
(***************************************************************************)
\* "error" in v, for a value v improve_transcript returns: the task as
\* JSON object, or the error dictionary
HasErrorKey(v) ==
  IF "t" \in DOMAIN v THEN v.t = "object" /\ "error" \in DOMAIN v.fields
  ELSE "error" \in DOMAIN v

ImproverReturned ==
  entry = "improve_transcript" /\ llm_pc = "done" /\ imp.result.kind = "return"

\* C26: a value improve_transcript returns has the key "error" exactly if
\* Stage 1 failed, so testing for that key tells a task from a failure.
C26_ErrorKeyIffFailed ==
  ImproverReturned =>
    (HasErrorKey(imp.result.value) <=> imp.outcome # "returned")

\* what the code does: every failure returned has the key, and a task
\* returned has it exactly if the model's output had it
C26_ErrorKeyOfFailureOrOutput ==
  ImproverReturned =>
    /\ imp.outcome # "returned" => HasErrorKey(imp.result.value)
    /\ imp.outcome = "returned" =>
         /\ imp.result.value = call.result.value.json
         /\ IsTaskDescription(imp.result.value)

(***************************************************************************)
(* Claims about reading a 2xx response whose body is JSON (Spec)           *)
(***************************************************************************)
\* call_ollama_system ended on a 2xx response whose body resp.json() parsed
EndedOnJsonBody ==
  CallEnded /\ CallAnswered /\ call.response.body = "json"

\* d has a member "message" that is a dict with a member "content" that is
\* no str
ContentNoStr(d) ==
  /\ HasKey(d, "message")
  /\ HasKey(d.f["message"], "content")
  /\ d.f["message"].f["content"].py # "str"

\* d has a member k that is a str
StrMember(d, k) == HasKey(d, k) /\ d.f[k].py = "str"

\* the "message" test, which does not look at the type of "content", is
\* the one that decides what is read from d
DecidedByMessage(d) ==
  /\ d.py = "dict"
  /\ ~StrMember(d, "response")
  /\ ~StrMember(d, "text")
  /\ HasKey(d, "message") /\ HasKey(d.f["message"], "content")

\* the first of data["choices"] decides, by its "message" test
DecidedByFirstChoice(d) ==
  /\ d.py = "dict"
  /\ ~StrMember(d, "response")
  /\ ~StrMember(d, "text")
  /\ ~DecidedByMessage(d)
  /\ HasKey(d, "choices")
  /\ d.f["choices"].py = "list"
  /\ Len(d.f["choices"].items) > 0
  /\ d.f["choices"].items[1].py = "dict"
  /\ HasKey(d.f["choices"].items[1], "message")
  /\ HasKey(d.f["choices"].items[1].f["message"], "content")

\* the content member that is read is no str
ReadsContentNoStr(d) ==
  \/ DecidedByMessage(d) /\ ContentNoStr(d)
  \/ DecidedByFirstChoice(d) /\ ContentNoStr(d.f["choices"].items[1])

\* C27: for every 2xx response whose body parses as JSON,
\* call_ollama_system returns a str and raises nothing, also when
\* "message.content", or that of the first choice, is there but is no str;
\* a body of no known shape is returned serialized, never dropped.
C27_JsonBodyAlwaysReturnsText ==
  EndedOnJsonBody => call.result.kind = "return"

\* what the code does: it raises AttributeError exactly when the content
\* member it reads is no str, and otherwise returns a str, which for a
\* body of no known shape is the serialized body, never empty
C27_RaisesWhenContentIsNoStr ==
  EndedOnJsonBody =>
    LET data == call.response.data
    IN  /\ call.result.kind = "raise" <=> ReadsContentNoStr(data)
        /\ call.result.kind = "raise" =>
             /\ call.result.exc = "AttributeError"
             /\ call.fails = call.posts - 1
        /\ (data.py # "dict" /\ call.result.kind = "return")
             => /\ call.result.value = json_dumps(data)
                /\ call.result.value.chars # <<>>

(***************************************************************************)
(* Claims about what Stage 2 returns as code (Spec)                        *)
(***************************************************************************)
\* s has a character that is no white space
HasVisibleChar(s) == \E i \in 1..Len(s) : ~IsSpace(s[i])

\* generate_code_from_task returned a text as the code
CodeReturned ==
  GenEnded /\ gen.outcome = "returned" /\ gen.result.kind = "return"

\* C28: generate_code_from_task never returns an empty artifact as its
\* code: the text it returns has a character that is no white space, also
\* when the model's answer is empty or is fence markers only.
C28_ArtifactNeverEmpty ==
  CodeReturned => HasVisibleChar(gen.result.value)

\* what the code does: the text returned is the one line break exactly when
\* nothing is left of the model's answer once fences and white space are
\* taken off, and has a visible character otherwise
C28_LineBreakOnlyForEmptyAnswer ==
  CodeReturned =>
    LET cleaned == Strip(strip_fencing(call.result.value.chars))
    IN  /\ cleaned # Sentinel
        /\ cleaned = <<>> <=> gen.result.value = <<"\n">>
        /\ cleaned # <<>> <=> HasVisibleChar(gen.result.value)

(***************************************************************************)
(* Claims about making logs/ on demand by two runs (SpecRuns)              *)
(***************************************************************************)
\* run i reached its failure handler and the handler has ended
HandlerEnded(i) == runs[i].trigger # "none" /\ runs[i].pc = "done"

RaisedFileExists(i) == runs[i].result = Raise("FileExistsError", "makedirs")

\* run i made logs/ or found it: it is past os.makedirs
PastMakedirs(i) == runs[i].pc \in {"open", "write"} \/ runs[i].wrote

\* C29: making logs/ on demand is safe when two runs fail at the same
\* time while logs/ is not there: however their exists tests and makedirs
\* calls interleave, each run writes its record and none raises from
\* making the directory.
C29_DirectoryCreationSafe ==
  \A i \in RunIds :
    HandlerEnded(i) => (runs[i].wrote /\ ~RaisedFileExists(i))

\* what the code does: a handler that saw no logs/ and finds it made by the
\* other run when it calls os.makedirs raises FileExistsError and writes
\* nothing; every other handler writes its record
C29_LoserOfTheRaceRaises ==
  \A i \in RunIds :
    /\ HandlerEnded(i) => (runs[i].wrote <=> ~RaisedFileExists(i))
    /\ RaisedFileExists(i) =>
         /\ logs_dir
         /\ runs[i].debug_id = NoDebugId
         /\ \E j \in RunIds \ {i} : PastMakedirs(j) /\ ~RaisedFileExists(j)
    /\ runs[i].pc = "makedirs" => runs[i].trigger # "none"
====
